---- MODULE Spec2Model ----
(***************************************************************************)
(* Verification model of the arbitrage finder: the scenario tables, the    *)
(* outcome win predicates, the partition validator, the scenario simulator *)
(* (arbitrage validator), the stake validators and two-way stake balancer, *)
(* and the opportunity finder that chains them.                            *)
(*                                                                         *)
(* Units.  Money is kept in whole cents (100.00 dollars is 10000), decimal *)
(* odds in hundredths (2.05 is 205), so a return stake*odds and a profit   *)
(* are in units of 1/10000 dollar (0.01 dollar is 100 units).  Spread and  *)
(* total lines are kept in half points (-1.5 is -3, 2.5 is 5).  Python's   *)
(* None for a missing line is NoneVal.                                     *)
(***************************************************************************)
EXTENDS Integers, Sequences, FiniteSets, TLC

VARIABLES pc, op, args, result, fp, recent_alerts, now, last_alerted,
          users, premium_entitlements, last_premium_call,
          rate_limit_cache, daily_summary, channel_sends

vars == <<pc, op, args, result, fp, recent_alerts, now, last_alerted,
          users, premium_entitlements, last_premium_call,
          rate_limit_cache, daily_summary, channel_sends>>

\* The state of the alert deduplication: the finder's recent_alerts dict, the
\* wall clock in seconds, and, as history, the time and the opportunity of
\* the last alert given for each key.
alerts == <<recent_alerts, now, last_alerted>>

EmptyDict == [k \in {} |-> 0]

NoAlerts == recent_alerts = EmptyDict /\ now = 0 /\ last_alerted = EmptyDict

\* The state of the Discord side: the users and premium_entitlements tables
\* of the SubscriptionManager's database, the DiscordNotifier's
\* rate_limit_cache and the integration manager's daily_summary; and, as
\* history, the last grant or revoke call made for each user and the
\* channel.send calls made so far.
discord == <<users, premium_entitlements, last_premium_call,
             rate_limit_cache, daily_summary, channel_sends>>

NoDiscord ==
    /\ users = {}
    /\ premium_entitlements = EmptyDict
    /\ last_premium_call = EmptyDict
    /\ rate_limit_cache = {}
    /\ daily_summary = [total_found |-> 0, high_confidence |-> 0, total_profit |-> 0,
                        opportunities |-> <<>>]
    /\ channel_sends = <<>>

NoneVal == 0 - 100000

Inf == 1000000000

Abs(x) == IF x < 0 THEN 0 - x ELSE x

Min2(x, y) == IF x < y THEN x ELSE y

Max2(x, y) == IF x > y THEN x ELSE y

(***************************************************************************)
(* Money is computed in binary floating point.  The model computes in      *)
(* exact decimal arithmetic, and leaves open the two places where the      *)
(* floating-point result depends on the operands' representation:          *)
(*  - a difference that is exactly the tolerance it is compared with lands *)
(*    on either side of it (abs(99.99 - 100.0) > 0.01 is True,             *)
(*    abs(49.99 - 50.0) > 0.01 is False);                                  *)
(*  - round(x, 2) of a value that is exactly half a cent goes either way   *)
(*    (round(20.295, 2) is 20.29, round(20.305, 2) is 20.31).              *)
(* fp is the set of sites at which such a case goes up: the difference     *)
(* compares as greater than the tolerance, the half cent is rounded up.    *)
(***************************************************************************)
FloatSites == {"total", "returns", "rounding", "half"}

Exceeds(diff, tolerance, site) ==
    diff > tolerance \/ (diff = tolerance /\ site \in fp)

\* round(x, 2) of a value held as the fraction num/den of a cent (den > 0).
RoundDiv(num, den) ==
    LET q == num \div den
        r == num % den
    IN  IF 2 * r > den \/ (2 * r = den /\ "half" \in fp) THEN q + 1 ELSE q

RECURSIVE GCD(_, _)
GCD(a, b) == IF b = 0 THEN a ELSE GCD(b, a % b)

\* round(t * num / den, 2) in cents; the fraction is reduced first so that the
\* product stays within TLC's integers.
RoundRatio(t, num, den) ==
    LET g == GCD(num, den) IN RoundDiv(t * (num \div g), den \div g)

(***************************************************************************)
(* Scenario tables (class ArbitrageValidator) and GameScenario.            *)
(***************************************************************************)
GameScenario(h, a) ==
    [str |-> "", home_score |-> h, away_score |-> a, point_differential |-> h - a]

StrScenario(s) ==
    [str |-> s, home_score |-> 0, away_score |-> 0, point_differential |-> 0]

IsStr(scenario) == scenario.str # ""

NHL_SCENARIOS ==
    << <<0, 0>>, <<1, 0>>, <<0, 1>>, <<1, 1>>, <<2, 0>>, <<0, 2>>,
       <<2, 1>>, <<1, 2>>, <<2, 2>>, <<3, 0>>, <<0, 3>>, <<3, 1>>,
       <<1, 3>>, <<3, 2>>, <<2, 3>>, <<4, 0>>, <<0, 4>>, <<4, 1>>,
       <<1, 4>>, <<4, 2>>, <<2, 4>>, <<3, 3>>, <<4, 3>>, <<3, 4>>,
       <<5, 0>>, <<0, 5>>, <<5, 1>>, <<1, 5>>, <<5, 2>>, <<2, 5>>,
       <<5, 3>>, <<3, 5>>, <<5, 4>>, <<4, 5>>, <<5, 5>>, <<6, 0>>,
       <<0, 6>>, <<6, 1>>, <<1, 6>>, <<6, 2>>, <<2, 6>>, <<6, 3>>,
       <<3, 6>>, <<6, 4>>, <<4, 6>>, <<6, 5>>, <<5, 6>> >>

SOCCER_SCENARIOS ==
    << <<0, 0>>, <<1, 0>>, <<0, 1>>, <<1, 1>>, <<2, 0>>, <<0, 2>>,
       <<2, 1>>, <<1, 2>>, <<2, 2>>, <<3, 0>>, <<0, 3>>, <<3, 1>>,
       <<1, 3>>, <<3, 2>>, <<2, 3>>, <<3, 3>>, <<4, 0>>, <<0, 4>>,
       <<4, 1>>, <<1, 4>>, <<4, 2>>, <<2, 4>>, <<4, 3>>, <<3, 4>>,
       <<5, 0>>, <<0, 5>>, <<5, 1>>, <<1, 5>>, <<5, 2>>, <<2, 5>> >>

BASKETBALL_SCENARIOS ==
    << <<80, 75>>, <<85, 80>>, <<90, 88>>, <<95, 92>>, <<100, 98>>,
       <<105, 100>>, <<110, 105>>, <<115, 110>>, <<120, 115>>,
       <<75, 80>>, <<80, 85>>, <<88, 90>>, <<92, 95>>, <<98, 100>>,
       <<100, 105>>, <<105, 110>>, <<110, 115>>, <<115, 120>> >>

TENNIS_SCENARIOS == << "A_WINS", "B_WINS" >>

MMA_SCENARIOS == << "A_WINS", "B_WINS", "DRAW" >>

\* The words that _get_scenarios_for_sport and the finder look for in a sport
\* key (`'hockey' in sport_lower`), for the sport keys used as inputs.
SportWords(sport) ==
    CASE sport = "icehockey_nhl" -> {"hockey", "nhl"}
      [] sport = "icehockey_sweden_hockey_league" -> {"hockey"}
      [] sport = "soccer_epl" -> {"soccer"}
      [] sport = "basketball_nba" -> {"basket"}
      [] sport = "tennis_atp" -> {"tennis"}
      [] sport = "mma_mixed_martial_arts" -> {"mma"}
      [] sport = "boxing_boxing" -> {"boxing"}
      [] OTHER -> {}

ScoreList(table) == [i \in 1..Len(table) |-> GameScenario(table[i][1], table[i][2])]

StrList(table) == [i \in 1..Len(table) |-> StrScenario(table[i])]

GetScenariosForSport(sport) ==
    IF "hockey" \in SportWords(sport) \/ "nhl" \in SportWords(sport)
    THEN ScoreList(NHL_SCENARIOS)
    ELSE IF "soccer" \in SportWords(sport) THEN ScoreList(SOCCER_SCENARIOS)
    ELSE IF "basket" \in SportWords(sport) THEN ScoreList(BASKETBALL_SCENARIOS)
    ELSE IF "tennis" \in SportWords(sport) THEN StrList(TENNIS_SCENARIOS)
    ELSE IF "mma" \in SportWords(sport) \/ "boxing" \in SportWords(sport)
    THEN StrList(MMA_SCENARIOS)
    ELSE ScoreList(NHL_SCENARIOS)

(***************************************************************************)
(* Outcomes.  An outcome dict {'outcome_type', 'spread', 'total'}; is_enum *)
(* tells an OutcomeType member from a plain string outcome_type.           *)
(***************************************************************************)
Outcome(isEnum, type, spread, total) ==
    [is_enum |-> isEnum, outcome_type |-> type, spread |-> spread, total |-> total]

EnumOutcome(type) == Outcome(TRUE, type, NoneVal, NoneVal)

SpreadOutcome(type, line) == Outcome(TRUE, type, line, NoneVal)

TotalOutcome(type, line) == Outcome(TRUE, type, NoneVal, line)

StrOutcome(type) == Outcome(FALSE, type, NoneVal, NoneVal)

\* String outcome types of the model (already upper case, so .upper() leaves
\* them alone) that contain "HOME" / "AWAY" as a substring.
ContainsHOME == {"HOME", "HOME_WIN", "HOME_-1.5"}

ContainsAWAY == {"AWAY", "AWAY_WIN", "AWAY_1.5"}

matches_home_win(scenario) ==
    IF IsStr(scenario) THEN scenario.str = "A_WINS"
    ELSE scenario.point_differential > 0

matches_away_win(scenario) ==
    IF IsStr(scenario) THEN scenario.str = "B_WINS"
    ELSE scenario.point_differential < 0

matches_draw(scenario) ==
    IF IsStr(scenario) THEN scenario.str = "DRAW"
    ELSE scenario.point_differential = 0

\* spread in half points; threshold = abs(spread).
matches_home_spread(scenario, spread) ==
    IF spread < 0
    THEN 2 * scenario.point_differential > Abs(spread)
    ELSE 2 * scenario.point_differential > 0 - Abs(spread)

matches_away_spread(scenario, spread) == matches_home_spread(scenario, 0 - spread)

matches_over(scenario, total) ==
    2 * (scenario.home_score + scenario.away_score) > total

matches_under(scenario, total) ==
    2 * (scenario.home_score + scenario.away_score) < total

\* evaluate_outcome_in_scenario raises (TypeError from abs(None) or from a
\* comparison with None, ValueError for a string scenario) instead of returning.
EvalRaises(outcome, scenario) ==
    /\ ~IsStr(scenario)
    /\ outcome.is_enum
    /\ \/ /\ outcome.outcome_type \in {"HOME_SPREAD_COVER", "AWAY_SPREAD_COVER"}
          /\ outcome.spread = NoneVal
       \/ /\ outcome.outcome_type \in {"OVER", "UNDER"}
          /\ outcome.total = NoneVal

evaluate_outcome_in_scenario(outcome, scenario) ==
    LET t == outcome.outcome_type
    IN  IF IsStr(scenario)
        THEN IF ~outcome.is_enum
             THEN IF t \in {"HOME", "A_WINS"} \/ t \in ContainsHOME
                  THEN scenario.str = "A_WINS"
                  ELSE IF t \in {"AWAY", "B_WINS"} \/ t \in ContainsAWAY
                  THEN scenario.str = "B_WINS"
                  ELSE IF t = "DRAW" THEN scenario.str = "DRAW"
                  ELSE FALSE
             ELSE IF t = "HOME_WIN" THEN scenario.str = "A_WINS"
                  ELSE IF t = "AWAY_WIN" THEN scenario.str = "B_WINS"
                  ELSE IF t = "DRAW" THEN scenario.str = "DRAW"
                  ELSE FALSE
        ELSE IF outcome.is_enum
             THEN CASE t = "HOME_WIN" -> matches_home_win(scenario)
                    [] t = "AWAY_WIN" -> matches_away_win(scenario)
                    [] t = "DRAW" -> matches_draw(scenario)
                    [] t = "HOME_SPREAD_COVER" -> matches_home_spread(scenario, outcome.spread)
                    [] t = "AWAY_SPREAD_COVER" -> matches_away_spread(scenario, outcome.spread)
                    [] t = "OVER" -> matches_over(scenario, outcome.total)
                    [] t = "UNDER" -> matches_under(scenario, outcome.total)
                    [] OTHER -> FALSE
             ELSE IF t \in {"HOME", "HOME_WIN"} THEN matches_home_win(scenario)
                  ELSE IF t \in {"AWAY", "AWAY_WIN"} THEN matches_away_win(scenario)
                  ELSE IF t = "DRAW" THEN matches_draw(scenario)
                  ELSE FALSE

IsDrawScenario(scenario) ==
    IF IsStr(scenario) THEN scenario.str = "DRAW"
    ELSE scenario.point_differential = 0

(***************************************************************************)
(* ArbitrageValidator.validate_two_way_arbitrage.                          *)
(***************************************************************************)
TwoWayProfitTolerance == 1000

SmallProfitTolerance == 100

TwoWayResultsInit ==
    [valid |-> TRUE, profit_range |-> <<Inf, 0 - Inf>>, scenarios_analyzed |-> 0,
     loss_scenarios |-> <<>>, profit_scenarios |-> <<>>, draw_scenarios |-> <<>>,
     all_scenario_profits |-> <<>>]

Returned(isValid, reason, results) ==
    [returned |-> TRUE, is_valid |-> isValid, reason |-> reason, results |-> results]

NotReturned(results) ==
    [returned |-> FALSE, is_valid |-> FALSE, reason |-> "", results |-> results]

\* TwoWayStep with the profit of every scenario, a draw's loss included, taken
\* into profit_range.
TwoWayStepBlendingDraws(res0, scenario, outcome_a, outcome_b, stake_a, stake_b, odds_a, odds_b) ==
    LET res1 == [res0 EXCEPT !.scenarios_analyzed = @ + 1]
    IN  IF EvalRaises(outcome_a, scenario) \/ EvalRaises(outcome_b, scenario)
        THEN Returned(FALSE, "error", [res1 EXCEPT !.valid = FALSE])
        ELSE
        LET outcome_a_wins == evaluate_outcome_in_scenario(outcome_a, scenario)
            outcome_b_wins == evaluate_outcome_in_scenario(outcome_b, scenario)
        IN  IF outcome_a_wins /\ outcome_b_wins
            THEN Returned(FALSE, "both_win", [res1 EXCEPT !.valid = FALSE])
            ELSE
            LET is_draw == IsDrawScenario(scenario)
                profit == IF outcome_a_wins
                          THEN stake_a * odds_a - 100 * (stake_a + stake_b)
                          ELSE IF outcome_b_wins
                          THEN stake_b * odds_b - 100 * (stake_a + stake_b)
                          ELSE 0 - 100 * (stake_a + stake_b)
                res2 == IF outcome_a_wins \/ outcome_b_wins THEN res1
                        ELSE IF is_draw
                        THEN [res1 EXCEPT !.draw_scenarios = Append(@, scenario)]
                        ELSE [res1 EXCEPT !.valid = FALSE,
                                          !.loss_scenarios = Append(@, scenario)]
                res3 == [res2 EXCEPT !.all_scenario_profits =
                            Append(@, [scenario |-> scenario,
                                       outcome_a_wins |-> outcome_a_wins,
                                       outcome_b_wins |-> outcome_b_wins,
                                       profit |-> RoundDiv(profit, 100)])]
                res4 == [res3 EXCEPT
                            !.profit_range = <<Min2(@[1], profit), Max2(@[2], profit)>>,
                            !.profit_scenarios =
                                IF profit > SmallProfitTolerance
                                THEN Append(@, scenario) ELSE @]
            IN  NotReturned(res4)

\* One iteration of the scenario loop (lines 304-360): either an early return
\* or the results dict after the iteration.
TwoWayStep(res0, scenario, outcome_a, outcome_b, stake_a, stake_b, odds_a, odds_b) ==
    LET res1 == [res0 EXCEPT !.scenarios_analyzed = @ + 1]
    IN  IF EvalRaises(outcome_a, scenario) \/ EvalRaises(outcome_b, scenario)
        THEN Returned(FALSE, "error", [res1 EXCEPT !.valid = FALSE])
        ELSE
        LET outcome_a_wins == evaluate_outcome_in_scenario(outcome_a, scenario)
            outcome_b_wins == evaluate_outcome_in_scenario(outcome_b, scenario)
        IN  IF outcome_a_wins /\ outcome_b_wins
            THEN Returned(FALSE, "both_win", [res1 EXCEPT !.valid = FALSE])
            ELSE
            LET is_draw == IsDrawScenario(scenario)
                profit == IF outcome_a_wins
                          THEN stake_a * odds_a - 100 * (stake_a + stake_b)
                          ELSE IF outcome_b_wins
                          THEN stake_b * odds_b - 100 * (stake_a + stake_b)
                          ELSE 0 - 100 * (stake_a + stake_b)
                res2 == IF outcome_a_wins \/ outcome_b_wins THEN res1
                        ELSE IF is_draw
                        THEN [res1 EXCEPT !.draw_scenarios = Append(@, scenario)]
                        ELSE [res1 EXCEPT !.valid = FALSE,
                                          !.loss_scenarios = Append(@, scenario)]
                res3 == [res2 EXCEPT !.all_scenario_profits =
                            Append(@, [scenario |-> scenario,
                                       outcome_a_wins |-> outcome_a_wins,
                                       outcome_b_wins |-> outcome_b_wins,
                                       profit |-> RoundDiv(profit, 100)])]
                res4 == IF outcome_a_wins \/ outcome_b_wins
                        THEN [res3 EXCEPT
                                !.profit_range = <<Min2(@[1], profit), Max2(@[2], profit)>>,
                                !.profit_scenarios =
                                    IF profit > SmallProfitTolerance
                                    THEN Append(@, scenario) ELSE @]
                        ELSE res3
            IN  NotReturned(res4)

RECURSIVE TwoWayLoop(_, _, _, _, _, _, _, _, _)
TwoWayLoop(i, acc, scenarios, outcome_a, outcome_b, stake_a, stake_b, odds_a, odds_b) ==
    IF acc.returned \/ i > Len(scenarios) THEN acc
    ELSE TwoWayLoop(i + 1,
                    TwoWayStep(acc.results, scenarios[i], outcome_a, outcome_b,
                               stake_a, stake_b, odds_a, odds_b),
                    scenarios, outcome_a, outcome_b, stake_a, stake_b, odds_a, odds_b)

\* TwoWayVerdict without the bound on the spread of the winning profits
\* (lines 383-387).
TwoWayVerdictIgnoringSpread(results) ==
    IF results.loss_scenarios # <<>>
    THEN Returned(FALSE, "loss_scenarios", [results EXCEPT !.valid = FALSE])
    ELSE IF Len(results.profit_scenarios) = 0
    THEN Returned(FALSE, "no_profitable", results)
    ELSE IF results.profit_range[1] = Inf
    THEN Returned(FALSE, "no_winning", results)
    ELSE Returned(TRUE, "valid", results)

\* The checks after the loop (lines 362-396).
TwoWayVerdict(results) ==
    IF results.loss_scenarios # <<>>
    THEN Returned(FALSE, "loss_scenarios", [results EXCEPT !.valid = FALSE])
    ELSE IF Len(results.profit_scenarios) = 0
    THEN Returned(FALSE, "no_profitable", results)
    ELSE IF results.profit_range[1] = Inf
    THEN Returned(FALSE, "no_winning", results)
    ELSE IF results.profit_range[2] - results.profit_range[1] > TwoWayProfitTolerance
    THEN Returned(FALSE, "profit_varies", [results EXCEPT !.valid = FALSE])
    ELSE Returned(TRUE, "valid", results)

validate_two_way_arbitrage(outcome_a, outcome_b, stake_a, stake_b, odds_a, odds_b, sport) ==
    LET scan == TwoWayLoop(1, NotReturned(TwoWayResultsInit), GetScenariosForSport(sport),
                           outcome_a, outcome_b, stake_a, stake_b, odds_a, odds_b)
    IN  IF scan.returned THEN scan ELSE TwoWayVerdict(scan.results)

(***************************************************************************)
(* ArbitrageValidator.validate_three_way_arbitrage.                        *)
(***************************************************************************)
ThreeWayProfitTolerance == 500

ThreeWayResultsInit ==
    [valid |-> TRUE, profit_range |-> <<Inf, 0 - Inf>>, scenarios_analyzed |-> 0,
     loss_scenarios |-> <<>>, all_scenario_profits |-> <<>>]

BoolToInt(b) == IF b THEN 1 ELSE 0

ThreeWayStep(res0, scenario, outcome_a, outcome_draw, outcome_b, stake_a, stake_draw, stake_b, odds_a, odds_draw, odds_b) ==
    LET res1 == [res0 EXCEPT !.scenarios_analyzed = @ + 1]
    IN  IF \/ EvalRaises(outcome_a, scenario)
           \/ EvalRaises(outcome_draw, scenario)
           \/ EvalRaises(outcome_b, scenario)
        THEN Returned(FALSE, "error", [res1 EXCEPT !.valid = FALSE])
        ELSE
        LET outcome_a_wins == evaluate_outcome_in_scenario(outcome_a, scenario)
            outcome_draw_wins == evaluate_outcome_in_scenario(outcome_draw, scenario)
            outcome_b_wins == evaluate_outcome_in_scenario(outcome_b, scenario)
            winning_outcomes == BoolToInt(outcome_a_wins) + BoolToInt(outcome_draw_wins)
                                + BoolToInt(outcome_b_wins)
            total == 100 * (stake_a + stake_draw + stake_b)
        IN  IF winning_outcomes > 1
            THEN Returned(FALSE, "multiple_win", [res1 EXCEPT !.valid = FALSE])
            ELSE
            LET profit == IF winning_outcomes = 0 THEN 0 - total
                          ELSE IF outcome_a_wins THEN stake_a * odds_a - total
                          ELSE IF outcome_draw_wins THEN stake_draw * odds_draw - total
                          ELSE stake_b * odds_b - total
                res2 == IF winning_outcomes = 0
                        THEN [res1 EXCEPT !.loss_scenarios = Append(@, scenario)]
                        ELSE res1
                res3 == [res2 EXCEPT
                            !.all_scenario_profits =
                                Append(@, [scenario |-> scenario,
                                           outcomes_win |-> <<outcome_a_wins,
                                                              outcome_draw_wins,
                                                              outcome_b_wins>>,
                                           profit |-> RoundDiv(profit, 100)]),
                            !.profit_range = <<Min2(@[1], profit), Max2(@[2], profit)>>]
            IN  NotReturned(res3)

RECURSIVE ThreeWayLoop(_, _, _, _, _, _, _, _, _, _, _, _)
ThreeWayLoop(i, acc, scenarios, outcome_a, outcome_draw, outcome_b, stake_a, stake_draw, stake_b, odds_a, odds_draw, odds_b) ==
    IF acc.returned \/ i > Len(scenarios) THEN acc
    ELSE ThreeWayLoop(i + 1,
                      ThreeWayStep(acc.results, scenarios[i], outcome_a, outcome_draw,
                                   outcome_b, stake_a, stake_draw, stake_b,
                                   odds_a, odds_draw, odds_b),
                      scenarios, outcome_a, outcome_draw, outcome_b,
                      stake_a, stake_draw, stake_b, odds_a, odds_draw, odds_b)

\* ThreeWayVerdict without the rejection of scenarios that no outcome wins
\* (lines 481-484).
ThreeWayVerdictIgnoringLosses(results) ==
    IF results.profit_range[2] - results.profit_range[1] > ThreeWayProfitTolerance
    THEN Returned(FALSE, "profit_varies", [results EXCEPT !.valid = FALSE])
    ELSE Returned(TRUE, "valid", results)

ThreeWayVerdict(results) ==
    IF results.loss_scenarios # <<>>
    THEN Returned(FALSE, "loss_scenarios", [results EXCEPT !.valid = FALSE])
    ELSE IF results.profit_range[2] - results.profit_range[1] > ThreeWayProfitTolerance
    THEN Returned(FALSE, "profit_varies", [results EXCEPT !.valid = FALSE])
    ELSE Returned(TRUE, "valid", results)

validate_three_way_arbitrage(outcome_a, outcome_draw, outcome_b, stake_a, stake_draw, stake_b, odds_a, odds_draw, odds_b, sport) ==
    LET scan == ThreeWayLoop(1, NotReturned(ThreeWayResultsInit),
                             GetScenariosForSport(sport),
                             outcome_a, outcome_draw, outcome_b,
                             stake_a, stake_draw, stake_b, odds_a, odds_draw, odds_b)
    IN  IF scan.returned THEN scan ELSE ThreeWayVerdict(scan.results)

(***************************************************************************)
(* OutcomePartition.  The partition validators do not catch the exception  *)
(* of evaluate_outcome_in_scenario: raised tells such a call from one that *)
(* returned (is_valid, reason).                                            *)
(***************************************************************************)
PartitionReturn(isValid, reason) ==
    [raised |-> FALSE, is_valid |-> isValid, reason |-> reason]

PartitionRaise == [raised |-> TRUE, is_valid |-> FALSE, reason |-> "exception"]

IsMoneyline(outcome_a, outcome_b) ==
    LET ta == outcome_a.outcome_type
        tb == outcome_b.outcome_type
    IN  IF outcome_a.is_enum /\ outcome_b.is_enum
        THEN ta = "HOME_WIN" /\ tb = "AWAY_WIN"
        ELSE IF ~outcome_a.is_enum /\ ~outcome_b.is_enum
        THEN \/ ta \in {"HOME", "A_WINS"} /\ tb \in {"AWAY", "B_WINS"}
             \/ ta \in {"AWAY", "B_WINS"} /\ tb \in {"HOME", "A_WINS"}
        ELSE FALSE

\* validate_two_way_partition without the test for scenarios that both outcomes
\* win (lines 685-686).
validate_two_way_partition_without_overlap_test(outcome_a, outcome_b, sport) ==
    LET scenarios == GetScenariosForSport(sport)
        n == Len(scenarios)
        a_wins(i) == evaluate_outcome_in_scenario(outcome_a, scenarios[i])
        b_wins(i) == evaluate_outcome_in_scenario(outcome_b, scenarios[i])
        uncovered_scenarios == {i \in 1..n : ~a_wins(i) /\ ~b_wins(i)}
        other_uncovered == {i \in uncovered_scenarios : ~IsDrawScenario(scenarios[i])}
    IN  IF \E i \in 1..n : EvalRaises(outcome_a, scenarios[i])
                           \/ EvalRaises(outcome_b, scenarios[i])
        THEN PartitionRaise
        ELSE IF IsMoneyline(outcome_a, outcome_b)
        THEN IF other_uncovered # {}
             THEN PartitionReturn(FALSE, "non_draw_uncovered")
             ELSE PartitionReturn(TRUE, "valid_draws_acceptable")
        ELSE IF uncovered_scenarios # {}
        THEN PartitionReturn(FALSE, "uncovered")
        ELSE PartitionReturn(TRUE, "valid")

validate_two_way_partition(outcome_a, outcome_b, sport) ==
    LET scenarios == GetScenariosForSport(sport)
        n == Len(scenarios)
        a_wins(i) == evaluate_outcome_in_scenario(outcome_a, scenarios[i])
        b_wins(i) == evaluate_outcome_in_scenario(outcome_b, scenarios[i])
        both_win_scenarios == {i \in 1..n : a_wins(i) /\ b_wins(i)}
        uncovered_scenarios == {i \in 1..n : ~a_wins(i) /\ ~b_wins(i)}
        other_uncovered == {i \in uncovered_scenarios : ~IsDrawScenario(scenarios[i])}
    IN  IF \E i \in 1..n : EvalRaises(outcome_a, scenarios[i])
                           \/ EvalRaises(outcome_b, scenarios[i])
        THEN PartitionRaise
        ELSE IF both_win_scenarios # {}
        THEN PartitionReturn(FALSE, "overlap")
        ELSE IF IsMoneyline(outcome_a, outcome_b)
        THEN IF other_uncovered # {}
             THEN PartitionReturn(FALSE, "non_draw_uncovered")
             ELSE PartitionReturn(TRUE, "valid_draws_acceptable")
        ELSE IF uncovered_scenarios # {}
        THEN PartitionReturn(FALSE, "uncovered")
        ELSE PartitionReturn(TRUE, "valid")

validate_three_way_partition(outcome_a, outcome_draw, outcome_b, sport) ==
    LET scenarios == GetScenariosForSport(sport)
        n == Len(scenarios)
        win_count(i) == BoolToInt(evaluate_outcome_in_scenario(outcome_a, scenarios[i]))
                        + BoolToInt(evaluate_outcome_in_scenario(outcome_draw, scenarios[i]))
                        + BoolToInt(evaluate_outcome_in_scenario(outcome_b, scenarios[i]))
        uncovered_scenarios == {i \in 1..n : win_count(i) = 0}
        multi_win_scenarios == {i \in 1..n : win_count(i) > 1}
    IN  IF \E i \in 1..n : \/ EvalRaises(outcome_a, scenarios[i])
                           \/ EvalRaises(outcome_draw, scenarios[i])
                           \/ EvalRaises(outcome_b, scenarios[i])
        THEN PartitionRaise
        ELSE IF multi_win_scenarios # {}
        THEN PartitionReturn(FALSE, "overlap")
        ELSE IF uncovered_scenarios # {}
        THEN PartitionReturn(FALSE, "uncovered")
        ELSE PartitionReturn(TRUE, "valid")

(***************************************************************************)
(* utils.py: profit margin and the two-way stake balancer.  A margin (a    *)
(* percentage) is the exact fraction num/den.  With odds A/100 and B/100,  *)
(* 1/odds_a + 1/odds_b = 100*(A+B)/(A*B).                                  *)
(***************************************************************************)
Margin(num, den) == [num |-> num, den |-> den]

ZeroMargin == Margin(0, 1)

\* (1 - implied_prob_sum) * 100 when the implied probabilities sum to exactly 1
\* and their floating-point sum falls just below 1.0: 1/1.08 + 1/13.5 gives
\* 1.1102230246251565e-14, 1/2.0 + 1/2.0 gives 0.0.  "sum" \in fp is the former.
RoundingResidue == Margin(1, Inf)

SumBelowOne(inv, prod) == inv < prod \/ (inv = prod /\ "sum" \in fp)

calculate_arbitrage_profit(odds_a, odds_b) ==
    LET inv == 100 * (odds_a + odds_b)
        prod == odds_a * odds_b
    IN  IF ~SumBelowOne(inv, prod) THEN ZeroMargin
        ELSE IF inv = prod THEN RoundingResidue
        ELSE Margin(100 * (prod - inv), prod)

calculate_three_way_arbitrage(odds_a, odds_draw, odds_b) ==
    LET prod == odds_a * odds_draw * odds_b
        inv == 100 * (odds_draw * odds_b + odds_a * odds_b + odds_a * odds_draw)
        g == GCD(prod - inv, prod)
    IN  IF ~SumBelowOne(inv, prod) THEN ZeroMargin
        ELSE IF inv = prod THEN RoundingResidue
        ELSE Margin(100 * ((prod - inv) \div g), prod \div g)

ReturnTolerance == 100


verify_stakes_after_rounding(odds_a, odds_b, stake_a, stake_b) ==
    LET return_a == stake_a * odds_a
        return_b == stake_b * odds_b
    IN  IF ~Exceeds(Abs(return_a - return_b), ReturnTolerance, "rounding")
        THEN <<stake_a, stake_b, TRUE>>
        ELSE IF return_a > return_b
        THEN <<RoundDiv(return_b, odds_a), stake_b, TRUE>>
        ELSE <<stake_a, RoundDiv(return_a, odds_b), TRUE>>

\* Returns <<stake_a, stake_b>>, or <<>> for None.
calculate_stakes_with_validation(odds_a, odds_b, total_stake) ==
    LET stake_a_rounded == RoundRatio(total_stake, odds_b, odds_a + odds_b)
        stake_b_rounded == total_stake - stake_a_rounded
        v == verify_stakes_after_rounding(odds_a, odds_b, stake_a_rounded, stake_b_rounded)
    IN  IF v[3] THEN <<v[1], v[2]>> ELSE <<>>

(***************************************************************************)
(* utils.py: the three-way stake balancer.  Inside the refinement loop a   *)
(* stake is an exact fraction; the three stakes are held over one common   *)
(* denominator as [a, d, b, den].  The odds are divided by their greatest  *)
(* common divisor g (reduced odds <<a, d, b, g>>), which leaves every      *)
(* ratio of stakes unchanged and keeps the products within TLC's integers. *)
(***************************************************************************)
Max3(x, y, z) == Max2(x, Max2(y, z))

Min3(x, y, z) == Min2(x, Min2(y, z))

OscillationEpsilon == 50

BalancedTolerance == 100

VerifyTotalTolerance == 1

VerifyReturnTolerance == 500

ReducedOdds(odds_a, odds_draw, odds_b) ==
    LET g == GCD(odds_a, GCD(odds_draw, odds_b))
    IN  <<odds_a \div g, odds_draw \div g, odds_b \div g, g>>

\* Quotient and remainder of t * num / den (den > 0), by doubling, so that no
\* intermediate value exceeds 3 * den.
RECURSIVE MulDiv(_, _, _)
MulDiv(t, num, den) ==
    IF t = 0 THEN [q |-> 0, r |-> 0]
    ELSE LET h == MulDiv(t \div 2, num, den)
             x == 2 * h.r + (t % 2) * num
         IN  [q |-> 2 * h.q + (x \div den), r |-> x % den]

\* round(t * num / den, 2) in cents.
RoundMulDiv(t, num, den) ==
    LET m == MulDiv(t, num, den)
    IN  IF 2 * m.r > den \/ (2 * m.r = den /\ "half" \in fp) THEN m.q + 1 ELSE m.q

\* The theoretical optimal stakes, unrounded (o: reduced odds).
IdealThreeWayStakes(o, total_stake) ==
    [a |-> total_stake * o[2] * o[3], d |-> total_stake * o[1] * o[3],
     b |-> total_stake * o[1] * o[2], den |-> o[2] * o[3] + o[1] * o[3] + o[1] * o[2]]

\* BalanceIteration with the last leg rounded to the cent like the other two,
\* instead of taking what is left of total_stake (utils.py:323).
BalanceIterationRoundingEveryLeg(st, o, odds_a, odds_draw, odds_b, total_stake) ==
    LET return_a0 == st.a * o[1]
        return_draw0 == st.d * o[2]
        return_b0 == st.b * o[3]
        sum == return_a0 + return_draw0 + return_b0
        AboveAverage(r) ==
            Exceeds(o[4] * (3 * r - sum), 3 * OscillationEpsilon * st.den, "returns") /\ r > 0
        prod == 3 * o[1] * o[2] * o[3]
        c == GCD(st.a, GCD(st.d, st.b))
        m_a == IF AboveAverage(return_a0) THEN (sum \div c) * o[2] * o[3] ELSE (st.a \div c) * prod
        m_d == IF AboveAverage(return_draw0) THEN (sum \div c) * o[1] * o[3] ELSE (st.d \div c) * prod
        m_b == IF AboveAverage(return_b0) THEN (sum \div c) * o[1] * o[2] ELSE (st.b \div c) * prod
        current_total == m_a + m_d + m_b
        stake_a == IF current_total > 0 THEN RoundMulDiv(total_stake, m_a, current_total)
                   ELSE RoundDiv(c * m_a, st.den * prod)
        stake_draw == IF current_total > 0 THEN RoundMulDiv(total_stake, m_d, current_total)
                      ELSE RoundDiv(c * m_d, st.den * prod)
        stake_b == IF current_total > 0 THEN RoundMulDiv(total_stake, m_b, current_total)
                   ELSE RoundDiv(c * m_b, st.den * prod)
        return_a == stake_a * odds_a
        return_draw == stake_draw * odds_draw
        return_b == stake_b * odds_b
        return_diff == Max3(return_a, return_draw, return_b)
                           - Min3(return_a, return_draw, return_b)
    IN  [stakes |-> [a |-> stake_a, d |-> stake_draw, b |-> stake_b, den |-> 1],
         balanced |-> return_diff < BalancedTolerance
                          \/ (return_diff = BalancedTolerance /\ "returns" \notin fp)]

\* One pass of the refinement loop: the stakes at its end and whether it
\* breaks.  A return r (in units of g / den) is above avg_return + 0.005 iff
\* g * (3 * r - sum) > 3 * 0.005 * den; the stake is then avg_return / odds.
\* Over the common denominator 3 * den * o[1] * o[2] * o[3] the scaled stake is
\* sum * (product of the other two odds), the unscaled one stake * prod; the
\* common divisor c of the three stakes is taken out of all of them.
BalanceIteration(st, o, odds_a, odds_draw, odds_b, total_stake) ==
    LET return_a0 == st.a * o[1]
        return_draw0 == st.d * o[2]
        return_b0 == st.b * o[3]
        sum == return_a0 + return_draw0 + return_b0
        AboveAverage(r) ==
            Exceeds(o[4] * (3 * r - sum), 3 * OscillationEpsilon * st.den, "returns") /\ r > 0
        prod == 3 * o[1] * o[2] * o[3]
        c == GCD(st.a, GCD(st.d, st.b))
        m_a == IF AboveAverage(return_a0) THEN (sum \div c) * o[2] * o[3] ELSE (st.a \div c) * prod
        m_d == IF AboveAverage(return_draw0) THEN (sum \div c) * o[1] * o[3] ELSE (st.d \div c) * prod
        m_b == IF AboveAverage(return_b0) THEN (sum \div c) * o[1] * o[2] ELSE (st.b \div c) * prod
        current_total == m_a + m_d + m_b
        stake_a == IF current_total > 0 THEN RoundMulDiv(total_stake, m_a, current_total)
                   ELSE RoundDiv(c * m_a, st.den * prod)
        stake_draw == IF current_total > 0 THEN RoundMulDiv(total_stake, m_d, current_total)
                      ELSE RoundDiv(c * m_d, st.den * prod)
        stake_b == total_stake - stake_a - stake_draw
        return_a == stake_a * odds_a
        return_draw == stake_draw * odds_draw
        return_b == stake_b * odds_b
        return_diff == Max3(return_a, return_draw, return_b)
                           - Min3(return_a, return_draw, return_b)
    IN  [stakes |-> [a |-> stake_a, d |-> stake_draw, b |-> stake_b, den |-> 1],
         balanced |-> return_diff < BalancedTolerance
                          \/ (return_diff = BalancedTolerance /\ "returns" \notin fp)]

RECURSIVE BalanceLoop(_, _, _, _, _, _, _, _)
BalanceLoop(iteration, st, o, odds_a, odds_draw, odds_b, total_stake, max_iterations) ==
    IF iteration >= max_iterations THEN st
    ELSE LET it == BalanceIteration(st, o, odds_a, odds_draw, odds_b, total_stake)
         IN  IF it.balanced THEN it.stakes
             ELSE BalanceLoop(iteration + 1, it.stakes, o, odds_a, odds_draw, odds_b,
                              total_stake, max_iterations)

\* Returns <<stake_a, stake_draw, stake_b>> (max_iterations >= 1).
calculate_three_way_stakes_balanced(odds_a, odds_draw, odds_b, total_stake, max_iterations) ==
    LET o == ReducedOdds(odds_a, odds_draw, odds_b)
        st == BalanceLoop(0, IdealThreeWayStakes(o, total_stake), o, odds_a, odds_draw, odds_b,
                          total_stake, max_iterations)
    IN  <<st.a, st.d, st.b>>

verify_arbitrage_with_rounding(odds_a, odds_draw, odds_b, stake_a, stake_draw, stake_b, total_stake) ==
    LET return_a == stake_a * odds_a
        return_draw == stake_draw * odds_draw
        return_b == stake_b * odds_b
        actual_total == stake_a + stake_draw + stake_b
        min_return == Min3(return_a, return_draw, return_b)
        max_return == Max3(return_a, return_draw, return_b)
    IN  IF Exceeds(Abs(actual_total - total_stake), VerifyTotalTolerance, "total")
        THEN [is_valid |-> FALSE, guaranteed_profit |-> 0, min_return |-> 0, max_return |-> 0]
        ELSE IF Exceeds(max_return - min_return, VerifyReturnTolerance, "returns")
        THEN [is_valid |-> FALSE, guaranteed_profit |-> 0,
              min_return |-> min_return, max_return |-> max_return]
        ELSE [is_valid |-> TRUE, guaranteed_profit |-> min_return - 100 * total_stake,
              min_return |-> min_return, max_return |-> max_return]

(***************************************************************************)
(* StakeValidator.                                                         *)
(***************************************************************************)
StakeTotalTolerance == 1

TwoWayStakeTolerance == 500

ThreeWayStakeTolerance == 100

\* validate_and_adjust_stakes without the adjustment of stake_b to the total
\* (lines 541-544).
validate_and_adjust_stakes_without_total(odds_a, odds_b, stake_a, stake_b0, total_stake) ==
    LET stake_b == stake_b0
        return_a == stake_a * odds_a
        return_b == stake_b * odds_b
    IN  IF ~Exceeds(Abs(return_a - return_b), TwoWayStakeTolerance, "returns")
        THEN <<TRUE, stake_a, stake_b>>
        ELSE IF return_a > return_b
        THEN LET adjusted_stake_a == RoundDiv(return_b, odds_a)
                 adjusted_stake_b == total_stake - adjusted_stake_a
             IN  IF ~Exceeds(Abs(adjusted_stake_a * odds_a - adjusted_stake_b * odds_b),
                             TwoWayStakeTolerance, "returns")
                 THEN <<TRUE, adjusted_stake_a, adjusted_stake_b>>
                 ELSE <<FALSE, stake_a, stake_b>>
        ELSE LET adjusted_stake_b == RoundDiv(return_a, odds_b)
                 adjusted_stake_a == total_stake - adjusted_stake_b
             IN  IF ~Exceeds(Abs(adjusted_stake_a * odds_a - adjusted_stake_b * odds_b),
                             TwoWayStakeTolerance, "returns")
                 THEN <<TRUE, adjusted_stake_a, adjusted_stake_b>>
                 ELSE <<FALSE, stake_a, stake_b>>

\* Returns <<valid, stake_a, stake_b>>.
validate_and_adjust_stakes(odds_a, odds_b, stake_a, stake_b0, total_stake) ==
    LET stake_b == IF Exceeds(Abs((stake_a + stake_b0) - total_stake),
                              StakeTotalTolerance, "total")
                   THEN total_stake - stake_a ELSE stake_b0
        return_a == stake_a * odds_a
        return_b == stake_b * odds_b
    IN  IF ~Exceeds(Abs(return_a - return_b), TwoWayStakeTolerance, "returns")
        THEN <<TRUE, stake_a, stake_b>>
        ELSE IF return_a > return_b
        THEN LET adjusted_stake_a == RoundDiv(return_b, odds_a)
                 adjusted_stake_b == total_stake - adjusted_stake_a
             IN  IF ~Exceeds(Abs(adjusted_stake_a * odds_a - adjusted_stake_b * odds_b),
                             TwoWayStakeTolerance, "returns")
                 THEN <<TRUE, adjusted_stake_a, adjusted_stake_b>>
                 ELSE <<FALSE, stake_a, stake_b>>
        ELSE LET adjusted_stake_b == RoundDiv(return_a, odds_b)
                 adjusted_stake_a == total_stake - adjusted_stake_b
             IN  IF ~Exceeds(Abs(adjusted_stake_a * odds_a - adjusted_stake_b * odds_b),
                             TwoWayStakeTolerance, "returns")
                 THEN <<TRUE, adjusted_stake_a, adjusted_stake_b>>
                 ELSE <<FALSE, stake_a, stake_b>>

\* Returns <<valid, stake_a, stake_draw, stake_b>>.
validate_three_way_stakes(odds_a, odds_draw, odds_b, stake_a, stake_draw, stake_b0, total_stake) ==
    LET stake_b == IF Exceeds(Abs((stake_a + stake_draw + stake_b0) - total_stake),
                              StakeTotalTolerance, "total")
                   THEN total_stake - stake_a - stake_draw ELSE stake_b0
        return_a == stake_a * odds_a
        return_draw == stake_draw * odds_draw
        return_b == stake_b * odds_b
        return_diff == Max3(return_a, return_draw, return_b)
                       - Min3(return_a, return_draw, return_b)
    IN  <<~Exceeds(return_diff, ThreeWayStakeTolerance, "returns"),
          stake_a, stake_draw, stake_b>>

(***************************************************************************)
(* config.py.                                                              *)
(***************************************************************************)
THREE_OUTCOME_SPORTS ==
    {"soccer_epl", "soccer_spain_la_liga", "soccer_italy_serie_a",
     "soccer_germany_bundesliga", "icehockey_nhl", "icehockey_sweden_hockey_league"}

is_three_way_sport(sport_key) == sport_key \in THREE_OUTCOME_SPORTS

DEFAULT_STAKE == 10000

\* MINIMUM_PROFIT_THRESHOLD = 0.5 (percent), as the fraction 1/2.
MeetsMinimumProfitThreshold(margin) == 2 * margin.num >= margin.den

\* f"{home_team} vs {away_team}"
EventName(home_team, away_team) == home_team \o <<" ", "v", "s", " ">> \o away_team

\* match.get('commence_time', ''): the start of the event in seconds of the
\* wall clock, NoneVal for the empty string of a match without one.
CommenceTime(match) ==
    IF "commence_time" \in DOMAIN match THEN match.commence_time ELSE NoneVal

(***************************************************************************)
(* ArbitrageFinder.find_arbitrage_opportunities.  A processed match is a   *)
(* record; a two-way match has player_draw = "" and odds_draw = 0.         *)
(***************************************************************************)
Opportunity(match, margin, stake_a, stake_draw, stake_b, guaranteed_profit) ==
    [sport |-> match.sport, market |-> match.market,
     num_outcomes |-> match.num_outcomes,
     player_a |-> match.player_a, player_draw |-> match.player_draw,
     player_b |-> match.player_b,
     odds_a |-> match.odds_a, odds_draw |-> match.odds_draw, odds_b |-> match.odds_b,
     bookmaker_a |-> match.bookmaker_a, bookmaker_draw |-> match.bookmaker_draw,
     bookmaker_b |-> match.bookmaker_b,
     event_name |-> match.event_name,
     commence_time |-> match.commence_time,
     profit_margin |-> margin,
     stake_a |-> stake_a, stake_draw |-> stake_draw, stake_b |-> stake_b,
     guaranteed_profit |-> guaranteed_profit,
     total_stake |-> DEFAULT_STAKE, is_validated |-> TRUE]

IsCombatSport(sport) == "mma" \in SportWords(sport) \/ "boxing" \in SportWords(sport)

\* Lines 483-542: the outcome dicts built from player_a / player_b; the match
\* carries no point_a / point_b, so 'spread' is None.
FinderOutcomeA(match) ==
    LET p == match.player_a
    IN  IF IsCombatSport(match.sport)
        THEN IF p \in {"HOME", "A_WINS"} THEN StrOutcome("A_WINS")
             ELSE IF p \in {"AWAY", "B_WINS"} THEN StrOutcome("B_WINS")
             ELSE StrOutcome("A_WINS")
        ELSE IF p = "HOME" THEN EnumOutcome("HOME_WIN")
             ELSE IF p = "AWAY" THEN EnumOutcome("AWAY_WIN")
             ELSE StrOutcome(p)

FinderOutcomeB(match) ==
    LET p == match.player_b
    IN  IF IsCombatSport(match.sport)
        THEN IF p \in {"AWAY", "B_WINS"} THEN StrOutcome("B_WINS")
             ELSE IF p \in {"HOME", "A_WINS"} THEN StrOutcome("A_WINS")
             ELSE StrOutcome("B_WINS")
        ELSE IF p = "HOME" THEN EnumOutcome("HOME_WIN")
             ELSE IF p = "AWAY" THEN EnumOutcome("AWAY_WIN")
             ELSE StrOutcome(p)

\* The two-way branch of the loop body (lines 445-567): the opportunities (none
\* or one) that one match appends.
FindTwoWay(match) ==
    LET profit_margin == calculate_arbitrage_profit(match.odds_a, match.odds_b)
        stakes_result == calculate_stakes_with_validation(match.odds_a, match.odds_b,
                                                          DEFAULT_STAKE)
    IN  IF is_three_way_sport(match.sport) /\ match.market = "h2h" THEN <<>>
        ELSE IF ~MeetsMinimumProfitThreshold(profit_margin) THEN <<>>
        ELSE IF stakes_result = <<>> THEN <<>>
        ELSE
        LET adj == validate_and_adjust_stakes(match.odds_a, match.odds_b,
                                              stakes_result[1], stakes_result[2],
                                              DEFAULT_STAKE)
        IN  IF ~adj[1] THEN <<>>
            ELSE
            LET v == validate_two_way_arbitrage(FinderOutcomeA(match), FinderOutcomeB(match),
                                                adj[2], adj[3],
                                                match.odds_a, match.odds_b, match.sport)
            IN  IF ~v.is_valid THEN <<>>
                ELSE << Opportunity(match, profit_margin, adj[2], 0, adj[3],
                                    v.results.profit_range[1]) >>

\* The three-way branch of the loop body (lines 569-641).
FindThreeWay(match) ==
    LET odds_a == match.odds_a
        odds_draw == match.odds_draw
        odds_b == match.odds_b
        profit_margin == calculate_three_way_arbitrage(odds_a, odds_draw, odds_b)
        denominator == odds_draw * odds_b + odds_a * odds_b + odds_a * odds_draw
        stake_a == RoundRatio(DEFAULT_STAKE, odds_draw * odds_b, denominator)
        stake_draw == RoundRatio(DEFAULT_STAKE, odds_a * odds_b, denominator)
        stake_b == DEFAULT_STAKE - stake_a - stake_draw
    IN  IF ~MeetsMinimumProfitThreshold(profit_margin) THEN <<>>
        ELSE
        LET adj == validate_three_way_stakes(odds_a, odds_draw, odds_b,
                                             stake_a, stake_draw, stake_b, DEFAULT_STAKE)
        IN  IF ~adj[1] THEN <<>>
            ELSE
            LET v == validate_three_way_arbitrage(
                         EnumOutcome("HOME_WIN"), EnumOutcome("DRAW"), EnumOutcome("AWAY_WIN"),
                         adj[2], adj[3], adj[4], odds_a, odds_draw, odds_b, match.sport)
            IN  IF ~v.is_valid THEN <<>>
                ELSE << Opportunity(match, profit_margin, adj[2], adj[3], adj[4],
                                    v.results.profit_range[1]) >>

RECURSIVE find_arbitrage_opportunities(_)
find_arbitrage_opportunities(matches) ==
    IF matches = <<>> THEN <<>>
    ELSE LET match == Head(matches)
             found == IF match.num_outcomes = 2 THEN FindTwoWay(match)
                      ELSE IF match.num_outcomes = 3 THEN FindThreeWay(match)
                      ELSE <<>>
         IN  found \o find_arbitrage_opportunities(Tail(matches))

(***************************************************************************)
(* Text.  A team name or an outcome label is a sequence of one-character   *)
(* strings, so that lower(), strip(), replace() and `in` are computed.     *)
(***************************************************************************)
LowerChar(c) ==
    CASE c = "A" -> "a" [] c = "B" -> "b" [] c = "C" -> "c" [] c = "D" -> "d"
      [] c = "E" -> "e" [] c = "F" -> "f" [] c = "G" -> "g" [] c = "H" -> "h"
      [] c = "I" -> "i" [] c = "J" -> "j" [] c = "K" -> "k" [] c = "L" -> "l"
      [] c = "M" -> "m" [] c = "N" -> "n" [] c = "O" -> "o" [] c = "P" -> "p"
      [] c = "Q" -> "q" [] c = "R" -> "r" [] c = "S" -> "s" [] c = "T" -> "t"
      [] c = "U" -> "u" [] c = "V" -> "v" [] c = "W" -> "w" [] c = "X" -> "x"
      [] c = "Y" -> "y" [] c = "Z" -> "z" [] OTHER -> c

Lower(s) == [i \in 1..Len(s) |-> LowerChar(s[i])]

RECURSIVE LStrip(_)
LStrip(s) == IF s # <<>> /\ Head(s) = " " THEN LStrip(Tail(s)) ELSE s

RECURSIVE RStrip(_)
RStrip(s) ==
    IF s # <<>> /\ s[Len(s)] = " " THEN RStrip(SubSeq(s, 1, Len(s) - 1)) ELSE s

Strip(s) == RStrip(LStrip(s))

StartsWith(s, prefix) ==
    Len(prefix) <= Len(s) /\ SubSeq(s, 1, Len(prefix)) = prefix

\* str.replace(old, new): leftmost non-overlapping occurrences (old is not empty).
RECURSIVE Replace(_, _, _)
Replace(s, old, new) ==
    IF s = <<>> THEN <<>>
    ELSE IF StartsWith(s, old)
    THEN new \o Replace(SubSeq(s, Len(old) + 1, Len(s)), old, new)
    ELSE <<Head(s)>> \o Replace(Tail(s), old, new)

\* sub in s
Contains(s, sub) ==
    \E i \in 1..(Len(s) - Len(sub) + 1) : SubSeq(s, i, i + Len(sub) - 1) = sub

normalize_team_name(name) ==
    IF name = <<>> THEN <<>>
    ELSE LET n0 == Strip(Lower(name))
             n1 == Replace(Replace(n0, <<"f", "c", " ">>, <<>>), <<" ", "f", "c">>, <<>>)
             n2 == Replace(Replace(n1, <<"t", "e", "a", "m", " ">>, <<>>),
                           <<" ", "t", "e", "a", "m">>, <<>>)
         IN  Replace(n2, <<"u", "n", "i", "t", "e", "d">>, <<"u", "t", "d">>)

identify_outcome_type(outcome_name, home_team, away_team) ==
    IF outcome_name = <<>> THEN "OTHER"
    ELSE LET outcome_lower == Lower(outcome_name)
             home_normalized == normalize_team_name(home_team)
             away_normalized == normalize_team_name(away_team)
         IN  IF Contains(outcome_lower, <<"d", "r", "a", "w">>)
                \/ Contains(outcome_lower, <<"t", "i", "e">>)
             THEN "DRAW"
             ELSE IF home_normalized # <<>> /\ Contains(outcome_lower, home_normalized)
             THEN "HOME"
             ELSE IF Contains(outcome_lower, <<"h", "o", "m", "e">>) THEN "HOME"
             ELSE IF away_normalized # <<>> /\ Contains(outcome_lower, away_normalized)
             THEN "AWAY"
             ELSE IF Contains(outcome_lower, <<"a", "w", "a", "y">>)
                     \/ Contains(outcome_lower, <<"r", "o", "a", "d">>)
             THEN "AWAY"
             ELSE "OTHER"

(***************************************************************************)
(* ArbitrageFinder.find_cross_market_arbitrage.  match_data is the raw     *)
(* record of the odds source: bookmakers, each with markets, each with     *)
(* outcomes {name, price, point}.                                          *)
(***************************************************************************)
RECURSIVE FlattenOutcomes(_, _, _)
FlattenOutcomes(title, market_key, outcomes) ==
    IF outcomes = <<>> THEN <<>>
    ELSE << [bookmaker |-> title, market |-> market_key, name |-> Head(outcomes).name,
             odds |-> Head(outcomes).price, point |-> Head(outcomes).point] >>
         \o FlattenOutcomes(title, market_key, Tail(outcomes))

RECURSIVE FlattenMarkets(_, _)
FlattenMarkets(title, markets) ==
    IF markets = <<>> THEN <<>>
    ELSE FlattenOutcomes(title, Head(markets).key, Head(markets).outcomes)
         \o FlattenMarkets(title, Tail(markets))

\* The three nested loops over bookmakers, markets and outcomes, in order.
RECURSIVE FlattenBookmakers(_)
FlattenBookmakers(bookmakers) ==
    IF bookmakers = <<>> THEN <<>>
    ELSE FlattenMarkets(Head(bookmakers).title, Head(bookmakers).markets)
         \o FlattenBookmakers(Tail(bookmakers))

\* "not odds or odds < 1.0 or odds > 1000"
InvalidOdds(odds) == odds = NoneVal \/ odds = 0 \/ odds < 100 \/ odds > 100000

\* market_combinations[key] for key "HOME" or "AWAY": the entries, in order, of
\* the h2h market whose name is classified as key (any other market gets the
\* key "<type>_<point>", which is neither).
RECURSIVE MarketCombination(_, _, _, _)
MarketCombination(entries, key, home_team, away_team) ==
    IF entries = <<>> THEN <<>>
    ELSE LET e == Head(entries)
             rest == MarketCombination(Tail(entries), key, home_team, away_team)
         IN  IF /\ ~InvalidOdds(e.odds)
                /\ identify_outcome_type(e.name, home_team, away_team) = key
                /\ e.market = "h2h"
             THEN <<e>> \o rest
             ELSE rest

FirstTwo(list) == SubSeq(list, 1, Min2(2, Len(list)))

CrossMatch(match_data, home_opt, away_opt) ==
    [sport |-> match_data.sport, market |-> "h2h_moneyline", num_outcomes |-> 2,
     player_a |-> "HOME", player_draw |-> "", player_b |-> "AWAY",
     odds_a |-> home_opt.odds, odds_draw |-> 0, odds_b |-> away_opt.odds,
     bookmaker_a |-> home_opt.bookmaker, bookmaker_draw |-> "",
     bookmaker_b |-> away_opt.bookmaker,
     event_name |-> EventName(match_data.home_team, match_data.away_team),
     commence_time |-> CommenceTime(match_data)]

\* The body of the two loops of strategy 1 (lines 363-415).
CrossPair(match_data, home_opt, away_opt) ==
    LET odds_home == home_opt.odds
        odds_away == away_opt.odds
        profit_margin == calculate_arbitrage_profit(odds_home, odds_away)
        stakes_result == calculate_stakes_with_validation(odds_home, odds_away, DEFAULT_STAKE)
    IN  IF ~MeetsMinimumProfitThreshold(profit_margin) THEN <<>>
        ELSE IF stakes_result = <<>> THEN <<>>
        ELSE
        LET adj == validate_and_adjust_stakes(odds_home, odds_away,
                                              stakes_result[1], stakes_result[2],
                                              DEFAULT_STAKE)
        IN  IF ~adj[1] THEN <<>>
            ELSE
            LET v == validate_two_way_arbitrage(
                         EnumOutcome("HOME_WIN"), EnumOutcome("AWAY_WIN"),
                         adj[2], adj[3], odds_home, odds_away, match_data.sport)
            IN  IF ~v.is_valid THEN <<>>
                ELSE << Opportunity(CrossMatch(match_data, home_opt, away_opt),
                                    profit_margin, adj[2], 0, adj[3],
                                    v.results.profit_range[1]) >>

RECURSIVE CrossAwayLoop(_, _, _)
CrossAwayLoop(match_data, home_opt, away_opts) ==
    IF away_opts = <<>> THEN <<>>
    ELSE CrossPair(match_data, home_opt, Head(away_opts))
         \o CrossAwayLoop(match_data, home_opt, Tail(away_opts))

RECURSIVE CrossHomeLoop(_, _, _)
CrossHomeLoop(match_data, home_opts, away_opts) ==
    IF home_opts = <<>> THEN <<>>
    ELSE CrossAwayLoop(match_data, Head(home_opts), away_opts)
         \o CrossHomeLoop(match_data, Tail(home_opts), away_opts)

find_cross_market_arbitrage(match_data) ==
    LET entries == FlattenBookmakers(match_data.bookmakers)
        home_opts == MarketCombination(entries, "HOME", match_data.home_team,
                                       match_data.away_team)
        away_opts == MarketCombination(entries, "AWAY", match_data.home_team,
                                       match_data.away_team)
        partition == validate_two_way_partition(EnumOutcome("HOME_WIN"),
                                                EnumOutcome("AWAY_WIN"), match_data.sport)
    IN  IF match_data.bookmakers = <<>> THEN <<>>
        ELSE IF home_opts = <<>> \/ away_opts = <<>> THEN <<>>
        ELSE IF ~partition.is_valid THEN <<>>
        ELSE CrossHomeLoop(match_data, FirstTwo(home_opts), FirstTwo(away_opts))

(***************************************************************************)
(* ArbitrageFinder.process_odds.  A canonical outcome key is a string; a   *)
(* line is held in half-points and printed as "%.1f".  markets_odds, a     *)
(* dict of dicts of lists in insertion order, is the sequence of the keyed *)
(* entries in the order of the three nested loops.                         *)
(***************************************************************************)
Digits == <<"0", "1", "2", "3", "4", "5", "6", "7", "8", "9">>

RECURSIVE DecimalText(_)
DecimalText(n) ==
    IF n < 10 THEN Digits[n + 1] ELSE DecimalText(n \div 10) \o Digits[(n % 10) + 1]

\* f"{point:.1f}", and f"{point:+.1f}".replace('+', ''), of a value held in halves.
FormatPoint(point) ==
    (IF point < 0 THEN "-" ELSE "") \o DecimalText(Abs(point) \div 2) \o "."
        \o (IF Abs(point) % 2 = 1 THEN "5" ELSE "0")

create_canonical_outcome_key(outcome_type, point, market_type) ==
    IF market_type = "h2h" \/ point = NoneVal THEN outcome_type
    ELSE IF outcome_type \in {"HOME", "AWAY"} THEN outcome_type \o "_" \o FormatPoint(point)
    ELSE outcome_type \o "_" \o FormatPoint(point)

\* The string of a text.
RECURSIVE Join(_)
Join(text) == IF text = <<>> THEN "" ELSE Head(text) \o Join(Tail(text))

\* Lines 146-163.  'OVER' in name.upper() is computed on the lower-cased name.
CanonicalKey(e, home_team, away_team) ==
    IF e.market = "h2h"
    THEN create_canonical_outcome_key(identify_outcome_type(e.name, home_team, away_team),
                                      NoneVal, "h2h")
    ELSE IF e.market = "spreads"
    THEN create_canonical_outcome_key(identify_outcome_type(e.name, home_team, away_team),
                                      e.point, "spreads")
    ELSE IF e.market = "totals"
    THEN create_canonical_outcome_key(
             IF Contains(Lower(e.name), <<"o", "v", "e", "r">>) THEN "OVER" ELSE "UNDER",
             e.point, "totals")
    ELSE Join(e.name)

\* The entries stored in markets_odds (lines 126-174), each with its key.
RECURSIVE KeyedEntries(_, _, _)
KeyedEntries(entries, home_team, away_team) ==
    IF entries = <<>> THEN <<>>
    ELSE LET e == Head(entries)
             rest == KeyedEntries(Tail(entries), home_team, away_team)
         IN  IF e.market = "" \/ InvalidOdds(e.odds) THEN rest
             ELSE << [market |-> e.market, key |-> CanonicalKey(e, home_team, away_team),
                      odds |-> e.odds, bookmaker |-> e.bookmaker, raw_name |-> e.name] >>
                  \o rest

\* The elements of a sequence in the order of their first appearance.
RECURSIVE Dedup(_)
Dedup(q) ==
    IF q = <<>> THEN <<>>
    ELSE LET init == Dedup(SubSeq(q, 1, Len(q) - 1))
             last == q[Len(q)]
         IN  IF \E i \in DOMAIN init : init[i] = last THEN init ELSE Append(init, last)

MarketKeys(keyed) == Dedup([i \in DOMAIN keyed |-> keyed[i].market])

OutcomeKeys(keyed, market_key) ==
    LET InMarket(e) == e.market = market_key
        mine == SelectSeq(keyed, InMarket)
    IN  Dedup([i \in DOMAIN mine |-> mine[i].key])

\* list.sort(key=odds, reverse=True): stable, best odds first.
RECURSIVE SortByOdds(_)
SortByOdds(list) ==
    IF list = <<>> THEN <<>>
    ELSE LET init == SortByOdds(SubSeq(list, 1, Len(list) - 1))
             last == list[Len(list)]
             NotBelow(e) == e.odds >= last.odds
             Below(e) == e.odds < last.odds
         IN  SelectSeq(init, NotBelow) \o <<last>> \o SelectSeq(init, Below)

OddsList(keyed, market_key, canonical_key) ==
    LET Mine(e) == e.market = market_key /\ e.key = canonical_key
    IN  SortByOdds(SelectSeq(keyed, Mine))

FirstThree(list) == SubSeq(list, 1, Min2(3, Len(list)))

\* Lines 206-224: the candidates of a two-way market, in the order of the loops.
TwoWayCandidates(sport, market_key, key_a, key_b, list_a, list_b, event_name, commence_time) ==
    LET la == Len(list_a)
        lb == Len(list_b)
    IN  [n \in 1..(la * lb) |->
            LET a == list_a[((n - 1) \div lb) + 1]
                b == list_b[((n - 1) % lb) + 1]
            IN  [sport |-> sport, market |-> market_key, num_outcomes |-> 2,
                 player_a |-> key_a, player_draw |-> "", player_b |-> key_b,
                 odds_a |-> a.odds, odds_draw |-> 0, odds_b |-> b.odds,
                 bookmaker_a |-> a.bookmaker, bookmaker_draw |-> "",
                 bookmaker_b |-> b.bookmaker,
                 bookmaker_a_raw |-> a.raw_name, bookmaker_b_raw |-> b.raw_name,
                 event_name |-> event_name, commence_time |-> commence_time]]

\* Lines 239-260: the candidates of a three-way market (home, draw, away loops).
ThreeWayCandidates(sport, market_key, home_list, draw_list, away_list, event_name, commence_time) ==
    LET lh == Len(home_list)
        ld == Len(draw_list)
        la == Len(away_list)
    IN  [n \in 1..(lh * ld * la) |->
            LET h == home_list[((n - 1) \div (ld * la)) + 1]
                d == draw_list[(((n - 1) \div la) % ld) + 1]
                a == away_list[((n - 1) % la) + 1]
            IN  [sport |-> sport, market |-> market_key, num_outcomes |-> 3,
                 player_a |-> "HOME", player_draw |-> "DRAW", player_b |-> "AWAY",
                 odds_a |-> h.odds, odds_draw |-> d.odds, odds_b |-> a.odds,
                 bookmaker_a |-> h.bookmaker, bookmaker_draw |-> d.bookmaker,
                 bookmaker_b |-> a.bookmaker,
                 bookmaker_a_raw |-> h.raw_name, bookmaker_b_raw |-> a.raw_name,
                 event_name |-> event_name, commence_time |-> commence_time]]

\* Lines 185-260 for one market of one match.
ProcessMarket(sport, market_key, keyed, event_name, commence_time) ==
    LET outcome_keys == OutcomeKeys(keyed, market_key)
        Has(k) == \E i \in DOMAIN outcome_keys : outcome_keys[i] = k
    IN  IF Len(outcome_keys) = 2
        THEN IF is_three_way_sport(sport) /\ market_key = "h2h" THEN <<>>
             ELSE TwoWayCandidates(sport, market_key, outcome_keys[1], outcome_keys[2],
                                   FirstThree(OddsList(keyed, market_key, outcome_keys[1])),
                                   FirstThree(OddsList(keyed, market_key, outcome_keys[2])),
                                   event_name, commence_time)
        ELSE IF Len(outcome_keys) = 3 /\ is_three_way_sport(sport) /\ market_key = "h2h"
        THEN IF Has("HOME") /\ Has("AWAY") /\ Has("DRAW")
             THEN ThreeWayCandidates(sport, market_key,
                                     FirstThree(OddsList(keyed, market_key, "HOME")),
                                     FirstThree(OddsList(keyed, market_key, "DRAW")),
                                     FirstThree(OddsList(keyed, market_key, "AWAY")),
                                     event_name, commence_time)
             ELSE <<>>
        ELSE <<>>

RECURSIVE ProcessMarkets(_, _, _, _, _)
ProcessMarkets(sport, market_keys, keyed, event_name, commence_time) ==
    IF market_keys = <<>> THEN <<>>
    ELSE ProcessMarket(sport, Head(market_keys), keyed, event_name, commence_time)
         \o ProcessMarkets(sport, Tail(market_keys), keyed, event_name, commence_time)

\* The body of the loop skipping every match while recent_alerts holds a key.
ProcessMatchUnlessAlerted(match, sport) ==
    IF match.bookmakers = <<>> \/ DOMAIN recent_alerts # {} THEN <<>>
    ELSE LET keyed == KeyedEntries(FlattenBookmakers(match.bookmakers),
                                   match.home_team, match.away_team)
         IN  ProcessMarkets(sport, MarketKeys(keyed), keyed,
                            EventName(match.home_team, match.away_team),
                            CommenceTime(match))

\* The body of the loop over odds_data (lines 113-260) for one match.
ProcessMatch(match, sport) ==
    IF match.bookmakers = <<>> THEN <<>>
    ELSE LET keyed == KeyedEntries(FlattenBookmakers(match.bookmakers),
                                   match.home_team, match.away_team)
         IN  ProcessMarkets(sport, MarketKeys(keyed), keyed,
                            EventName(match.home_team, match.away_team),
                            CommenceTime(match))

RECURSIVE process_odds(_, _)
process_odds(odds_data, sport) ==
    IF odds_data = <<>> THEN <<>>
    ELSE ProcessMatch(Head(odds_data), sport) \o process_odds(Tail(odds_data), sport)

(***************************************************************************)
(* ArbitrageFinder.create_alert_key and should_alert.  Times are seconds   *)
(* of the wall clock.                                                      *)
(***************************************************************************)
DUPLICATE_ALERT_WINDOW_SECONDS == 3600

\* int(profit_margin * 2), the tier in halves of a percent.  When the margin
\* is an exact multiple of 0.5 its floating-point value may fall just below
\* it ((1 - (1/2.0 + 1/2.5)) * 100 is 9.999999999999998): "tier" \in fp keeps
\* the exact tier, otherwise the one below is taken.
ProfitTier(profit_margin) ==
    LET t == (2 * profit_margin.num) \div profit_margin.den
    IN  IF (2 * profit_margin.num) % profit_margin.den = 0 /\ t > 0 /\ "tier" \notin fp
        THEN t - 1 ELSE t

create_alert_key(opportunity) ==
    opportunity.player_a \o "_vs_" \o opportunity.player_b \o "_" \o opportunity.bookmaker_a
        \o "_" \o opportunity.bookmaker_b \o "_profit_"
        \o FormatPoint(ProfitTier(opportunity.profit_margin))

\* should_alert suppressing also a key alerted exactly the window ago.
should_alertWithinOrAtWindow(opportunity, cache, current_time) ==
    LET alert_key == create_alert_key(opportunity)
    IN  IF alert_key \in DOMAIN cache
           /\ current_time - cache[alert_key] <= DUPLICATE_ALERT_WINDOW_SECONDS
        THEN [returned |-> FALSE, recent_alerts |-> cache]
        ELSE LET updated == [k \in DOMAIN cache \cup {alert_key} |->
                                IF k = alert_key THEN current_time ELSE cache[k]]
                 keys_to_remove == {k \in DOMAIN updated :
                                       current_time - updated[k]
                                           > DUPLICATE_ALERT_WINDOW_SECONDS}
             IN  [returned |-> TRUE,
                  recent_alerts |-> [k \in DOMAIN updated \ keys_to_remove |-> updated[k]]]

\* should_alert on the cache, at current_time: what it returns and the cache
\* it leaves.
should_alert(opportunity, cache, current_time) ==
    LET alert_key == create_alert_key(opportunity)
    IN  IF alert_key \in DOMAIN cache
           /\ current_time - cache[alert_key] < DUPLICATE_ALERT_WINDOW_SECONDS
        THEN [returned |-> FALSE, recent_alerts |-> cache]
        ELSE LET updated == [k \in DOMAIN cache \cup {alert_key} |->
                                IF k = alert_key THEN current_time ELSE cache[k]]
                 keys_to_remove == {k \in DOMAIN updated :
                                       current_time - updated[k]
                                           > DUPLICATE_ALERT_WINDOW_SECONDS}
             IN  [returned |-> TRUE,
                  recent_alerts |-> [k \in DOMAIN updated \ keys_to_remove |-> updated[k]]]

(***************************************************************************)
(* ArbitrageFinder.passes_filters and the RealWorldValidator it calls.     *)
(* Times are seconds of the wall clock; a reason is the name of the test   *)
(* that rejected.                                                          *)
(***************************************************************************)
BOOKMAKER_TRUST_SCORES ==
    ("FanDuel" :> 10) @@ ("DraftKings" :> 10) @@ ("BetMGM" :> 9) @@ ("Caesars" :> 9)
        @@ ("PointsBet" :> 8) @@ ("BetRivers" :> 8) @@ ("Unibet" :> 8)
        @@ ("Bovada" :> 7) @@ ("MyBookie" :> 6) @@ ("BetOnline" :> 6)

MINIMUM_BOOKMAKER_TRUST == 6

\* config.BOOKMAKER_TRUST_SCORES.get(bookmaker, 5)
TrustScore(bookmaker) ==
    IF bookmaker \in DOMAIN BOOKMAKER_TRUST_SCORES
    THEN BOOKMAKER_TRUST_SCORES[bookmaker] ELSE 5

\* MINIMUM_EVENT_START_HOURS = 0.25 and MAXIMUM_EVENT_START_DAYS = 7, in seconds.
MINIMUM_EVENT_START_SECONDS == 900

MAXIMUM_EVENT_START_SECONDS == 7 * 24 * 3600

\* SPORT_PROFIT_THRESHOLDS.get(sport, MINIMUM_PROFIT_THRESHOLD), in percent.
SportProfitThreshold(sport) ==
    IF sport \in {"mma_mixed_martial_arts", "boxing_boxing"} THEN [num |-> 4, den |-> 5]
    ELSE IF sport \in {"soccer_epl", "soccer_spain_la_liga", "soccer_italy_serie_a",
                       "soccer_germany_bundesliga", "icehockey_nhl",
                       "icehockey_sweden_hockey_league"} THEN [num |-> 1, den |-> 1]
    ELSE [num |-> 1, den |-> 2]

\* TimingConstraints.can_place_both_bets: an unparseable time is rejected.
can_place_both_bets(commence_time, current_time) ==
    IF commence_time = NoneVal THEN FALSE
    ELSE commence_time - current_time >= 5 * 60

validate_bookmaker_availability(bookmaker_a, bookmaker_b) ==
    /\ bookmaker_a \in DOMAIN BOOKMAKER_TRUST_SCORES
    /\ bookmaker_b \in DOMAIN BOOKMAKER_TRUST_SCORES

validate_bookmaker_trust(bookmaker_a, bookmaker_b, min_trust) ==
    /\ TrustScore(bookmaker_a) >= min_trust
    /\ TrustScore(bookmaker_b) >= min_trust

\* max_bets.get(bookmaker, default_max_bet), in cents.
MaxBet(bookmaker) ==
    IF bookmaker \in {"PointsBet", "WynnBET"} THEN 300000 ELSE 500000

validate_maximum_bet_size(stake_a, stake_b, bookmaker_a, bookmaker_b) ==
    /\ stake_a <= MaxBet(bookmaker_a)
    /\ stake_b <= MaxBet(bookmaker_b)

\* RealWorldValidator.validate_opportunity: all_passed and the primary reason,
\* the first failing test in the order timing, bookmakers, trust, limits.
validate_opportunity(opportunity, current_time) ==
    IF ~can_place_both_bets(opportunity.commence_time, current_time)
    THEN [valid |-> FALSE, primary_reason |-> "timing"]
    ELSE IF ~validate_bookmaker_availability(opportunity.bookmaker_a, opportunity.bookmaker_b)
    THEN [valid |-> FALSE, primary_reason |-> "bookmakers"]
    ELSE IF ~validate_bookmaker_trust(opportunity.bookmaker_a, opportunity.bookmaker_b, 7)
    THEN [valid |-> FALSE, primary_reason |-> "trust"]
    ELSE IF ~validate_maximum_bet_size(opportunity.stake_a, opportunity.stake_b,
                                       opportunity.bookmaker_a, opportunity.bookmaker_b)
    THEN [valid |-> FALSE, primary_reason |-> "limits"]
    ELSE [valid |-> TRUE, primary_reason |-> ""]

\* The bookmakers of the trust loop, in its order (lines 676-678).
FilterBookmakers(opportunity) ==
    IF opportunity.num_outcomes = 3
    THEN <<opportunity.bookmaker_a, opportunity.bookmaker_b, opportunity.bookmaker_draw>>
    ELSE <<opportunity.bookmaker_a, opportunity.bookmaker_b>>

\* The timing test of lines 687-698; a time that does not parse raises and
\* the except clause passes.
EventTimingReason(opportunity, current_time) ==
    IF opportunity.commence_time = NoneVal THEN ""
    ELSE IF opportunity.commence_time - current_time < MINIMUM_EVENT_START_SECONDS
    THEN "event_starts_soon"
    ELSE IF opportunity.commence_time - current_time > MAXIMUM_EVENT_START_SECONDS
    THEN "event_too_far"
    ELSE ""

passes_filters(opportunity, current_time) ==
    LET bookmakers == FilterBookmakers(opportunity)
        min_profit == SportProfitThreshold(opportunity.sport)
        real_world == validate_opportunity(opportunity, current_time)
        total_stake == IF opportunity.num_outcomes = 2
                       THEN opportunity.stake_a + opportunity.stake_b
                       ELSE opportunity.stake_a + opportunity.stake_draw + opportunity.stake_b
    IN  IF ~opportunity.is_validated
        THEN [passes |-> FALSE, reason |-> "not_validated"]
        ELSE IF \E i \in DOMAIN bookmakers : TrustScore(bookmakers[i]) < MINIMUM_BOOKMAKER_TRUST
        THEN [passes |-> FALSE, reason |-> "bookmaker_trust"]
        ELSE IF EventTimingReason(opportunity, current_time) # ""
        THEN [passes |-> FALSE, reason |-> EventTimingReason(opportunity, current_time)]
        ELSE IF opportunity.profit_margin.num * min_profit.den
                    < min_profit.num * opportunity.profit_margin.den
        THEN [passes |-> FALSE, reason |-> "sport_profit"]
        ELSE IF ~real_world.valid
        THEN [passes |-> FALSE, reason |-> "real_world_" \o real_world.primary_reason]
        ELSE IF Exceeds(Abs(total_stake - DEFAULT_STAKE), 1, "total")
        THEN [passes |-> FALSE, reason |-> "stake_total"]
        ELSE [passes |-> TRUE, reason |-> "passed"]

(***************************************************************************)
(* SubscriptionManager: the premium_entitlements table, one row per        *)
(* discord_id (its primary key) with the columns lifetime and is_active.   *)
(***************************************************************************)
\* INSERT OR REPLACE INTO premium_entitlements (discord_id, lifetime, is_active)
\* VALUES (?, 1, 1)
grant_lifetime_premium(table, discord_id) ==
    [k \in DOMAIN table \cup {discord_id} |->
        IF k = discord_id THEN [lifetime |-> TRUE, is_active |-> TRUE] ELSE table[k]]

\* UPDATE premium_entitlements SET is_active = 0, without the WHERE clause.
revoke_premiumOfEveryUser(table, discord_id) ==
    [k \in DOMAIN table |-> [table[k] EXCEPT !.is_active = FALSE]]

\* UPDATE premium_entitlements SET is_active = 0 WHERE discord_id = ?
revoke_premium(table, discord_id) ==
    [k \in DOMAIN table |->
        IF k = discord_id THEN [table[k] EXCEPT !.is_active = FALSE] ELSE table[k]]

\* SELECT is_active ... WHERE discord_id = ? AND lifetime = 1; no row is False.
is_premium_user(table, discord_id) ==
    /\ discord_id \in DOMAIN table
    /\ table[discord_id].lifetime
    /\ table[discord_id].is_active

\* SELECT discord_id ... WHERE is_active = 1 AND lifetime = 1
get_all_premium_users(table) ==
    {k \in DOMAIN table : table[k].is_active /\ table[k].lifetime}

(***************************************************************************)
(* DiscordNotifier.send_opportunity_alert and                              *)
(* DiscordIntegrationManager.send_opportunity_to_subscribers.  The state   *)
(* of a notifier is its rate_limit_cache and the sends made to channels.   *)
(***************************************************************************)
\* f"{opportunity.get('event_name')}_{opportunity.get('sport')}"
OppKey(opportunity) == <<opportunity.event_name, opportunity.sport>>

\* Lines 51-68: a key in the cache returns False before anything is sent;
\* otherwise the embed is sent to the channel and the key is cached.
send_opportunity_alert(notifier, channel, opportunity, is_premium) ==
    IF OppKey(opportunity) \in notifier.rate_limit_cache
    THEN [rate_limit_cache |-> notifier.rate_limit_cache,
          channel_sends |-> notifier.channel_sends, returned |-> FALSE]
    ELSE [rate_limit_cache |-> notifier.rate_limit_cache \cup {OppKey(opportunity)},
          channel_sends |-> Append(notifier.channel_sends,
                                   [channel |-> channel, opportunity |-> opportunity,
                                    is_premium |-> is_premium]),
          returned |-> TRUE]

\* Steps 6 to 8 of send_opportunity_to_subscribers: the premium channel
\* first, when it exists and there are premium users, then the free
\* preview channel when it exists.
SendToChannels(notifier, opportunity, premium_channel, free_channel, premium_users) ==
    LET after_premium ==
            IF premium_channel /\ premium_users # {}
            THEN send_opportunity_alert(notifier, "premium", opportunity, TRUE)
            ELSE notifier
    IN  IF free_channel
        THEN send_opportunity_alert(after_premium, "free", opportunity, FALSE)
        ELSE after_premium

(***************************************************************************)
(* ArbitrageFinder.check_for_arbitrage, for one sport: after process_odds  *)
(* and find_arbitrage_opportunities it runs find_cross_market_arbitrage on *)
(* every match of the feed and hands all opportunities to the alert loop.  *)
(***************************************************************************)
RECURSIVE CrossMarketOpportunities(_, _)
CrossMarketOpportunities(odds_data, sport) ==
    IF odds_data = <<>> THEN <<>>
    ELSE LET m == Head(odds_data)
             match_data == [sport |-> sport, home_team |-> m.home_team,
                            away_team |-> m.away_team, bookmakers |-> m.bookmakers]
         IN  find_cross_market_arbitrage(match_data)
                 \o CrossMarketOpportunities(Tail(odds_data), sport)

\* config.SPORTS = TWO_OUTCOME_SPORTS + THREE_OUTCOME_SPORTS.
SPORTS ==
    <<"mma_mixed_martial_arts", "boxing_boxing", "soccer_epl", "soccer_spain_la_liga",
      "soccer_italy_serie_a", "soccer_germany_bundesliga", "icehockey_nhl",
      "icehockey_sweden_hockey_league">>

\* What fetch_odds returns for a response of the API: None when the request
\* failed (RequestException), the decoded JSON otherwise.  Only the truth
\* value of the result is tested (line 1097): None and an empty list are false.
FetchSucceeded(response) == ~response.failed /\ response.json # <<>>

\* Lines 1097-1123: the opportunities one sport adds to all_opportunities.
SportOpportunities(response, sport) ==
    IF FetchSucceeded(response)
    THEN find_arbitrage_opportunities(process_odds(response.json, sport))
             \o CrossMarketOpportunities(response.json, sport)
    ELSE <<>>

\* The for loop over config.SPORTS stopping at the first failed fetch.
AfterSportStoppingAtFailure(index, response) ==
    IF FetchSucceeded(response) THEN index + 1 ELSE Len(SPORTS) + 1

\* The for loop over config.SPORTS goes on to the next sport whatever
\* fetch_odds returned.
AfterSport(index, response) == index + 1

\* Lines 1135-1163: the alert loop over all_opportunities, from the cache
\* recent_alerts at current_time: the opportunities filtered out, skipped
\* as duplicates and alerted (display_alert), each in the order of the loop.
RECURSIVE AlertLoop(_, _, _)
AlertLoop(all_opportunities, cache, current_time) ==
    IF all_opportunities = <<>>
    THEN [recent_alerts |-> cache, filtered |-> <<>>, duplicates |-> <<>>, alerted |-> <<>>]
    ELSE LET opp == Head(all_opportunities)
         IN  IF ~passes_filters(opp, current_time).passes
             THEN LET rest == AlertLoop(Tail(all_opportunities), cache, current_time)
                  IN  [rest EXCEPT !.filtered = <<opp>> \o @]
             ELSE LET r == should_alert(opp, cache, current_time)
                      rest == AlertLoop(Tail(all_opportunities), r.recent_alerts,
                                        current_time)
                  IN  IF r.returned
                      THEN [rest EXCEPT !.alerted = <<opp>> \o @]
                      ELSE [rest EXCEPT !.duplicates = <<opp>> \o @]

\* The validator methods find_arbitrage_opportunities has called on a
\* candidate, in order, when it appends the opportunity: the two-way branch
\* (lines 474 and 545) and the three-way branch (lines 592 and 617).
StandardPathValidatorCalls(opportunity) ==
    IF opportunity.num_outcomes = 2
    THEN <<"StakeValidator.validate_and_adjust_stakes",
           "ArbitrageValidator.validate_two_way_arbitrage">>
    ELSE <<"StakeValidator.validate_three_way_stakes",
           "ArbitrageValidator.validate_three_way_arbitrage">>

\* The validator methods find_cross_market_arbitrage has called on a pair of
\* options, in order, when it appends the opportunity (lines 356, 377, 385).
CrossMarketPathValidatorCalls ==
    <<"OutcomePartition.validate_two_way_partition",
      "StakeValidator.validate_and_adjust_stakes",
      "ArbitrageValidator.validate_two_way_arbitrage">>

(***************************************************************************)
(* Inputs of the validators.  A spread or total kind carries its line and  *)
(* every other kind carries none; one spread outcome has no line (None).   *)
(***************************************************************************)
MaxSpreadLine == 3

SpreadLines == (0 - MaxSpreadLine)..MaxSpreadLine

TotalLines == {4, 5, 25}

StringTypes == {"HOME", "AWAY", "DRAW", "A_WINS", "B_WINS", "HOME_-1.5", "OVER_2.5"}

Outcomes ==
    {EnumOutcome(t) : t \in {"HOME_WIN", "AWAY_WIN", "DRAW"}}
    \cup {SpreadOutcome(t, l) : t \in {"HOME_SPREAD_COVER", "AWAY_SPREAD_COVER"},
                                l \in SpreadLines}
    \cup {TotalOutcome(t, l) : t \in {"OVER", "UNDER"}, l \in TotalLines}
    \cup {StrOutcome(t) : t \in StringTypes}
    \cup {SpreadOutcome("HOME_SPREAD_COVER", NoneVal)}

Outcomes3 ==
    {EnumOutcome(t) : t \in {"HOME_WIN", "AWAY_WIN", "DRAW"}}
    \cup {SpreadOutcome("HOME_SPREAD_COVER", 0 - 3), TotalOutcome("UNDER", 5),
          StrOutcome("HOME"), StrOutcome("DRAW")}

ValidatorSports ==
    {"icehockey_nhl", "soccer_epl", "basketball_nba", "tennis_atp",
     "mma_mixed_martial_arts", "americanfootball_nfl"}

StakeSkew == 2

StakePairs == {<<5000, 5000>>, <<5000 + StakeSkew, 5000 - StakeSkew>>}

OddsPairs == {<<200, 200>>, <<205, 205>>, <<200, 205>>}

StakeTriples == {<<3333, 3333, 3334>>, <<3333 + StakeSkew, 3333, 3334 - StakeSkew>>}

OddsTriples == {<<290, 290, 290>>, <<310, 310, 310>>, <<310, 290, 310>>}

PartitionArgs2 ==
    [kind : {"partition2"}, outcome_a : Outcomes, outcome_b : Outcomes,
     sport : ValidatorSports]

PartitionArgs3 ==
    [kind : {"partition3"}, outcome_a : Outcomes3, outcome_draw : Outcomes3,
     outcome_b : Outcomes3, sport : ValidatorSports]

ArbitrageArgs2 ==
    [kind : {"arbitrage2"}, outcome_a : Outcomes, outcome_b : Outcomes,
     sport : ValidatorSports, stakes : StakePairs, odds : OddsPairs]

ArbitrageArgs3 ==
    [kind : {"arbitrage3"}, outcome_a : Outcomes3, outcome_draw : Outcomes3,
     outcome_b : Outcomes3, sport : ValidatorSports,
     stakes : StakeTriples, odds : OddsTriples]

NoResult == [none |-> TRUE]

InitValidators ==
    /\ pc = "start"
    /\ op = ""
    /\ args \in PartitionArgs2 \cup PartitionArgs3 \cup ArbitrageArgs2 \cup ArbitrageArgs3
    /\ result = NoResult
    /\ fp = {}
    /\ NoAlerts
    /\ NoDiscord

ValidateTwoWayPartition ==
    /\ pc = "start"
    /\ args.kind = "partition2"
    /\ result' = validate_two_way_partition(args.outcome_a, args.outcome_b, args.sport)
    /\ op' = "validate_two_way_partition"
    /\ pc' = "done"
    /\ UNCHANGED <<args, fp, alerts, discord>>

ValidateThreeWayPartition ==
    /\ pc = "start"
    /\ args.kind = "partition3"
    /\ result' = validate_three_way_partition(args.outcome_a, args.outcome_draw,
                                              args.outcome_b, args.sport)
    /\ op' = "validate_three_way_partition"
    /\ pc' = "done"
    /\ UNCHANGED <<args, fp, alerts, discord>>

ValidateTwoWayArbitrage ==
    /\ pc = "start"
    /\ args.kind = "arbitrage2"
    /\ result' = validate_two_way_arbitrage(args.outcome_a, args.outcome_b,
                                            args.stakes[1], args.stakes[2],
                                            args.odds[1], args.odds[2], args.sport)
    /\ op' = "validate_two_way_arbitrage"
    /\ pc' = "done"
    /\ UNCHANGED <<args, fp, alerts, discord>>

ValidateThreeWayArbitrage ==
    /\ pc = "start"
    /\ args.kind = "arbitrage3"
    /\ result' = validate_three_way_arbitrage(args.outcome_a, args.outcome_draw,
                                              args.outcome_b,
                                              args.stakes[1], args.stakes[2], args.stakes[3],
                                              args.odds[1], args.odds[2], args.odds[3],
                                              args.sport)
    /\ op' = "validate_three_way_arbitrage"
    /\ pc' = "done"
    /\ UNCHANGED <<args, fp, alerts, discord>>

(***************************************************************************)
(* Inputs of the stake balancer and of the two finders.                    *)
(***************************************************************************)
StakeOdds == {150, 160, 205, 210, 300, 340, 1000}

TotalStakes == {2500, 5000, 10000}

StakeArgs ==
    [kind : {"stakes2"}, odds_a : StakeOdds, odds_b : StakeOdds,
     total_stake : TotalStakes]

BalancerOdds == {150, 250, 300, 400, 800}

BalancerTotals == {100, 5000, 10000}

MaxIterations == 3

BalancerArgs ==
    [kind : {"stakes3"}, odds_a : BalancerOdds, odds_draw : BalancerOdds,
     odds_b : BalancerOdds, total_stake : BalancerTotals,
     max_iterations : 1..MaxIterations]

MarginOdds == {108, 190, 200, 210, 1350}

MarginOdds3 == {150, 250, 300, 400, 600}

MarginArgs ==
    [kind : {"margin2"}, odds_a : MarginOdds, odds_b : MarginOdds]
        \cup [kind : {"margin3"}, odds_a : MarginOdds3, odds_draw : MarginOdds3,
              odds_b : MarginOdds3]

CrossSports == {"basketball_nba", "soccer_epl"}

\* <<odds_a, odds_b>>
FinderOdds ==
    {<<150, 1000>>, <<1000, 150>>, <<210, 1000>>, <<210, 210>>, <<150, 210>>}

FinderOdds3 == {300, 600}

AJAX == <<"F", "C", " ", "A", "j", "a", "x">>

LYON == <<"L", "y", "o", "n">>

\* <<sport, market, player_a, player_b>>
TwoWayShapes ==
    {<<"basketball_nba", "h2h", "HOME", "AWAY">>,
     <<"basketball_nba", "h2h", "AWAY", "HOME">>,
     <<"basketball_nba", "spreads", "HOME_-1.5", "AWAY_1.5">>,
     <<"americanfootball_nfl", "h2h", "HOME", "AWAY">>,
     <<"mma_mixed_martial_arts", "h2h", "HOME", "AWAY">>,
     <<"mma_mixed_martial_arts", "totals", "OVER_2.5", "UNDER_2.5">>,
     <<"soccer_epl", "h2h", "HOME", "AWAY">>,
     <<"soccer_epl", "totals", "OVER_2.5", "UNDER_2.5">>}

ProcessedTwoWay ==
    {[sport |-> sh[1], market |-> sh[2], num_outcomes |-> 2,
      player_a |-> sh[3], player_draw |-> "", player_b |-> sh[4],
      odds_a |-> o[1], odds_draw |-> 0, odds_b |-> o[2],
      bookmaker_a |-> "FanDuel", bookmaker_draw |-> "", bookmaker_b |-> "Bovada",
      event_name |-> EventName(AJAX, LYON), commence_time |-> NoneVal] :
        sh \in TwoWayShapes, o \in FinderOdds}

ProcessedThreeWay ==
    {[sport |-> "soccer_epl", market |-> "h2h", num_outcomes |-> 3,
      player_a |-> "HOME", player_draw |-> "DRAW", player_b |-> "AWAY",
      odds_a |-> oa, odds_draw |-> od, odds_b |-> ob,
      bookmaker_a |-> "FanDuel", bookmaker_draw |-> "BetMGM", bookmaker_b |-> "Bovada",
      event_name |-> EventName(AJAX, LYON), commence_time |-> NoneVal] :
        oa \in FinderOdds3, od \in FinderOdds3, ob \in FinderOdds3}

MaxMatches == 1

SeqsUpTo(S, n) == UNION {[1..k -> S] : k \in 0..n}

FinderArgs ==
    [kind : {"finder"}, matches : SeqsUpTo(ProcessedTwoWay \cup ProcessedThreeWay, MaxMatches)]

DRAW_LABEL == <<"D", "r", "a", "w">>

\* <<market key, second outcome's name, price of the first outcome, price of the second>>
CrossMarkets ==
    {<<"h2h", LYON, 150, 1000>>, <<"h2h", LYON, 1000, 150>>, <<"h2h", LYON, 150, 150>>,
     <<"h2h", LYON, 210, 1000>>, <<"h2h", DRAW_LABEL, 1000, 150>>,
     <<"spreads", LYON, 1000, 1000>>}

BookmakerOffers ==
    {[title |-> t,
      markets |-> << [key |-> m[1],
                      outcomes |-> << [name |-> AJAX, price |-> m[3], point |-> NoneVal],
                                      [name |-> m[2], price |-> m[4], point |-> NoneVal] >>] >>] :
        t \in {"FanDuel", "Bovada"}, m \in {c \in CrossMarkets : c[1] = "h2h" /\ c[2] = LYON}}
    \cup
    {[title |-> "FanDuel",
      markets |-> << [key |-> m[1],
                      outcomes |-> << [name |-> AJAX, price |-> m[3], point |-> NoneVal],
                                      [name |-> m[2], price |-> m[4], point |-> NoneVal] >>] >>] :
        m \in {c \in CrossMarkets : c[1] # "h2h" \/ c[2] # LYON}}

MaxBookmakers == 2

CrossArgs ==
    {[kind |-> "cross",
      match_data |-> [sport |-> sp, home_team |-> AJAX, away_team |-> LYON,
                      bookmakers |-> b]] :
        sp \in CrossSports, b \in SeqsUpTo(BookmakerOffers, MaxBookmakers)}

(***************************************************************************)
(* Inputs of a polling cycle: the odds_data fetched for one sport, one     *)
(* match, each bookmaker offering one market.  OL is a label of the away   *)
(* team that identify_outcome_type cannot classify, PUSH a totals label    *)
(* that is neither over nor under.                                         *)
(***************************************************************************)
OL == <<"O", "L">>

OVER_LABEL == <<"O", "v", "e", "r">>

UNDER_LABEL == <<"U", "n", "d", "e", "r">>

PUSH == <<"P", "u", "s", "h">>

RawOutcome(name, price, point) == [name |-> name, price |-> price, point |-> point]

RawOffer(title, market_key, outcomes) ==
    [title |-> title, markets |-> << [key |-> market_key, outcomes |-> outcomes] >>]

RawOffers ==
    {RawOffer("FanDuel", "h2h", <<RawOutcome(AJAX, 210, NoneVal), RawOutcome(LYON, 210, NoneVal)>>),
     RawOffer("Bovada", "h2h", <<RawOutcome(AJAX, 210, NoneVal), RawOutcome(LYON, 210, NoneVal)>>),
     RawOffer("Bovada", "h2h", <<RawOutcome(AJAX, 150, NoneVal), RawOutcome(LYON, 1000, NoneVal)>>),
     RawOffer("FanDuel", "h2h", <<RawOutcome(AJAX, 210, NoneVal), RawOutcome(OL, 210, NoneVal)>>),
     RawOffer("FanDuel", "h2h", <<RawOutcome(AJAX, 300, NoneVal), RawOutcome(DRAW_LABEL, 600, NoneVal),
                                  RawOutcome(LYON, 300, NoneVal)>>),
     RawOffer("Bovada", "h2h", <<RawOutcome(AJAX, 600, NoneVal), RawOutcome(DRAW_LABEL, 300, NoneVal),
                                 RawOutcome(LYON, 300, NoneVal)>>),
     RawOffer("FanDuel", "totals", <<RawOutcome(OVER_LABEL, 210, 5), RawOutcome(UNDER_LABEL, 210, 5)>>),
     RawOffer("Bovada", "totals", <<RawOutcome(OVER_LABEL, 210, 5), RawOutcome(PUSH, 210, 5)>>),
     RawOffer("FanDuel", "spreads", <<RawOutcome(AJAX, 210, 0 - 3), RawOutcome(LYON, 210, 3)>>)}

CycleSports == {"mma_mixed_martial_arts", "basketball_nba", "soccer_epl"}

MaxOffers == 2

CycleArgs ==
    {[kind |-> "cycle", sport |-> sp,
      odds_data |-> << [home_team |-> AJAX, away_team |-> LYON, bookmakers |-> b] >>] :
        sp \in CycleSports, b \in SeqsUpTo(RawOffers, MaxOffers)}

InitCycle ==
    /\ pc = "start"
    /\ op = ""
    /\ args \in CycleArgs
    /\ result = NoResult
    /\ fp \in SUBSET FloatSites
    /\ NoAlerts
    /\ NoDiscord

(***************************************************************************)
(* Inputs of identify_outcome_type: team names, some with the parts that   *)
(* normalize_team_name rewrites, and the labels a bookmaker gives.         *)
(***************************************************************************)
LEEDS_UNITED == <<"L", "e", "e", "d", "s", " ", "U", "n", "i", "t", "e", "d">>

TEAM_SPIRIT == <<"T", "e", "a", "m", " ", "S", "p", "i", "r", "i", "t">>

PORTO == <<"P", "o", "r", "t", "o">>

GENK == <<"G", "e", "n", "k">>

NICE == <<"N", "i", "c", "e">>

INTER == <<"I", "n", "t", "e", "r">>

TeamNames == {AJAX, LYON, LEEDS_UNITED, TEAM_SPIRIT, PORTO, GENK, NICE, INTER}

LabelArgs ==
    {[kind |-> "label", outcome_name |-> n, home_team |-> h, away_team |-> a] :
        n \in TeamNames \cup {OL, DRAW_LABEL},
        h \in TeamNames, a \in TeamNames}

InitLabels ==
    /\ pc = "start"
    /\ op = ""
    /\ args \in {l \in LabelArgs : l.home_team # l.away_team}
    /\ result = NoResult
    /\ fp = {}
    /\ NoAlerts
    /\ NoDiscord

(***************************************************************************)
(* Inputs of check_for_arbitrage whose opportunities reach the alert loop: *)
(* a soccer match whose draw two bookmakers price alike, and a fight whose *)
(* second fighter two bookmakers price alike.                              *)
(***************************************************************************)
AlertFeedSoccer ==
    << [home_team |-> AJAX, away_team |-> LYON,
        bookmakers |->
            << RawOffer("FanDuel", "h2h", <<RawOutcome(AJAX, 300, NoneVal),
                                            RawOutcome(DRAW_LABEL, 600, NoneVal),
                                            RawOutcome(LYON, 300, NoneVal)>>),
               RawOffer("Bovada", "h2h", <<RawOutcome(DRAW_LABEL, 600, NoneVal)>>) >>] >>

AlertFeedMMA ==
    << [home_team |-> AJAX, away_team |-> LYON,
        bookmakers |->
            << RawOffer("FanDuel", "h2h", <<RawOutcome(AJAX, 250, NoneVal),
                                            RawOutcome(LYON, 250, NoneVal)>>),
               RawOffer("Bovada", "h2h", <<RawOutcome(LYON, 250, NoneVal)>>) >>] >>

\* A basketball game and its return fixture, which one bookmaker prices alike.
AlertFeedTwoEvents ==
    << [home_team |-> AJAX, away_team |-> LYON,
        bookmakers |->
            << RawOffer("FanDuel", "h2h", <<RawOutcome(AJAX, 250, NoneVal),
                                            RawOutcome(LYON, 250, NoneVal)>>) >>],
       [home_team |-> LYON, away_team |-> AJAX,
        bookmakers |->
            << RawOffer("FanDuel", "h2h", <<RawOutcome(LYON, 250, NoneVal),
                                            RawOutcome(AJAX, 250, NoneVal)>>) >>] >>

AlertArgs ==
    { [kind |-> "alerts", sport |-> "soccer_epl", odds_data |-> AlertFeedSoccer],
      [kind |-> "alerts", sport |-> "mma_mixed_martial_arts", odds_data |-> AlertFeedMMA],
      [kind |-> "alerts", sport |-> "basketball_nba", odds_data |-> AlertFeedTwoEvents] }

TickSeconds == 1800

MaxTicks == 5

TierSites == {"tier"}

InitAlerts ==
    /\ pc = "start"
    /\ op = ""
    /\ fp \in SUBSET TierSites
    /\ args \in AlertArgs
    /\ result = NoResult
    /\ NoAlerts
    /\ NoDiscord

\* Opportunities handed to passes_filters: every pairing of a bookmaker of
\* top trust, of trust 7, of trust 6 and an unlisted one, an event without
\* a start time, starting in 10 minutes, in an hour and in more than a week,
\* a margin below and above the sport's threshold, stakes adding up to the
\* total and one cent off.
FilterBookmakerNames == {"FanDuel", "Bovada", "MyBookie", "Pinnacle"}

FilterCommenceTimes == {NoneVal, 600, 3600, MAXIMUM_EVENT_START_SECONDS + 3600}

FilterOpportunity(num_outcomes, sport, ba, bd, bb, commence_time, margin, stake_b, is_validated) ==
    [sport |-> sport, market |-> "h2h", num_outcomes |-> num_outcomes,
     player_a |-> "HOME", player_draw |-> IF num_outcomes = 3 THEN "DRAW" ELSE "",
     player_b |-> "AWAY",
     odds_a |-> 0, odds_draw |-> 0, odds_b |-> 0,
     bookmaker_a |-> ba, bookmaker_draw |-> bd, bookmaker_b |-> bb,
     event_name |-> EventName(AJAX, LYON), commence_time |-> commence_time,
     profit_margin |-> margin,
     stake_a |-> IF num_outcomes = 3 THEN 3000 ELSE 5000,
     stake_draw |-> IF num_outcomes = 3 THEN 2000 ELSE 0,
     stake_b |-> stake_b,
     guaranteed_profit |-> 0, total_stake |-> DEFAULT_STAKE, is_validated |-> is_validated]

FilterArgs ==
    {[kind |-> "filter",
      opportunity |-> FilterOpportunity(2, "basketball_nba", ba, "", bb, t, m, st, v)] :
        ba \in FilterBookmakerNames, bb \in FilterBookmakerNames,
        t \in FilterCommenceTimes, m \in {[num |-> 2, den |-> 5], [num |-> 3, den |-> 1]},
        st \in {5000, 5001}, v \in BOOLEAN}
    \cup
    {[kind |-> "filter",
      opportunity |-> FilterOpportunity(3, "soccer_epl", "FanDuel", bd, bb, t,
                                        [num |-> 3, den |-> 1], 5000, TRUE)] :
        bd \in FilterBookmakerNames, bb \in FilterBookmakerNames,
        t \in FilterCommenceTimes}

InitFilters ==
    /\ pc = "start"
    /\ op = ""
    /\ args \in FilterArgs
    /\ result = NoResult
    /\ fp \in SUBSET {"total"}
    /\ NoAlerts
    /\ NoDiscord

\* The sports of a cycle are the first MaxSports of config.SPORTS; the API
\* answers each with a failure, an empty list or one event an hour away.
MaxSports == 3

FetchedEvent(sport) ==
    [home_team |-> AJAX, away_team |-> LYON, commence_time |-> 3600,
     bookmakers |->
         IF is_three_way_sport(sport)
         THEN << RawOffer("FanDuel", "h2h", <<RawOutcome(AJAX, 300, NoneVal),
                                              RawOutcome(DRAW_LABEL, 600, NoneVal),
                                              RawOutcome(LYON, 300, NoneVal)>>) >>
         ELSE << RawOffer("FanDuel", "h2h", <<RawOutcome(AJAX, 250, NoneVal)>>),
                 RawOffer("Bovada", "h2h", <<RawOutcome(LYON, 250, NoneVal)>>) >>]

Responses(sport) ==
    {[failed |-> TRUE, json |-> <<>>], [failed |-> FALSE, json |-> <<>>],
     [failed |-> FALSE, json |-> <<FetchedEvent(sport)>>]}

CheckArgs ==
    {[kind |-> "check", responses |-> r] :
        r \in {q \in [1..MaxSports -> UNION {Responses(SPORTS[i]) : i \in 1..MaxSports}] :
                   \A i \in 1..MaxSports : q[i] \in Responses(SPORTS[i])}}

InitCheck ==
    /\ pc = "start"
    /\ op = ""
    /\ args \in CheckArgs
    /\ result = NoResult
    /\ fp \in SUBSET TierSites
    /\ NoAlerts
    /\ NoDiscord

\* Discord users, and the calls made about them.
MaxUsers == 3

DiscordUsers == 1..MaxUsers

PremiumArgs == {[kind |-> "premium"]}

InitPremium ==
    /\ pc = "start"
    /\ op = ""
    /\ args \in PremiumArgs
    /\ result = NoResult
    /\ fp = {}
    /\ NoAlerts
    /\ NoDiscord

\* The bot's view of its server: whether it is in a guild, and which of the
\* two alert channels get_channel finds there.
MaxSends == 3

DiscordArgs ==
    {a \in [kind : {"discord"}, guilds : BOOLEAN, premium_channel : BOOLEAN,
            free_channel : BOOLEAN] :
        (a.premium_channel \/ a.free_channel) => a.guilds}

DiscordOpportunities ==
    {[event_name |-> e, sport |-> "mma_mixed_martial_arts", guaranteed_profit |-> 250000] :
        e \in {EventName(AJAX, LYON), EventName(LYON, AJAX)}}

InitDiscord ==
    /\ pc = "start"
    /\ op = ""
    /\ args \in DiscordArgs
    /\ result = NoResult
    /\ fp = {}
    /\ NoAlerts
    /\ NoDiscord

InitStakes ==
    /\ pc = "start"
    /\ op = ""
    /\ args \in StakeArgs
    /\ result = NoResult
    /\ fp \in SUBSET FloatSites
    /\ NoAlerts
    /\ NoDiscord

InitBalancer ==
    /\ pc = "start"
    /\ op = ""
    /\ args \in BalancerArgs
    /\ result = NoResult
    /\ fp \in SUBSET FloatSites
    /\ NoAlerts
    /\ NoDiscord

\* The only float tie of a margin computation is the sum of the implied
\* probabilities against 1.0.  The finders need no such site: the residue is
\* below MINIMUM_PROFIT_THRESHOLD like the zero it stands for.
SumSites == {"sum"}

InitMargin ==
    /\ pc = "start"
    /\ op = ""
    /\ args \in MarginArgs
    /\ result = NoResult
    /\ fp \in SUBSET SumSites
    /\ NoAlerts
    /\ NoDiscord

InitFinder ==
    /\ pc = "start"
    /\ op = ""
    /\ args \in FinderArgs \cup CrossArgs
    /\ result = NoResult
    /\ fp \in SUBSET FloatSites
    /\ NoAlerts
    /\ NoDiscord

CalculateStakesWithValidation ==
    /\ pc = "start"
    /\ args.kind = "stakes2"
    /\ result' = [stakes |-> calculate_stakes_with_validation(args.odds_a, args.odds_b,
                                                             args.total_stake)]
    /\ op' = "calculate_stakes_with_validation"
    /\ pc' = "done"
    /\ UNCHANGED <<args, fp, alerts, discord>>

FindArbitrageOpportunities ==
    /\ pc = "start"
    /\ args.kind = "finder"
    /\ result' = [opportunities |-> find_arbitrage_opportunities(args.matches)]
    /\ op' = "find_arbitrage_opportunities"
    /\ pc' = "done"
    /\ UNCHANGED <<args, fp, alerts, discord>>

FindCrossMarketArbitrage ==
    /\ pc = "start"
    /\ args.kind = "cross"
    /\ result' = [opportunities |-> find_cross_market_arbitrage(args.match_data)]
    /\ op' = "find_cross_market_arbitrage"
    /\ pc' = "done"
    /\ UNCHANGED <<args, fp, alerts, discord>>

CalculateThreeWayStakesBalanced ==
    /\ pc = "start"
    /\ args.kind = "stakes3"
    /\ result' = [stakes |-> calculate_three_way_stakes_balanced(
                                 args.odds_a, args.odds_draw, args.odds_b,
                                 args.total_stake, args.max_iterations)]
    /\ op' = "calculate_three_way_stakes_balanced"
    /\ pc' = "balanced"
    /\ UNCHANGED <<args, fp, alerts, discord>>

\* The verification the callers of the balancer run on the stakes it returned.
VerifyArbitrageWithRounding ==
    /\ pc = "balanced"
    /\ result' = [stakes |-> result.stakes,
                  verified |-> verify_arbitrage_with_rounding(
                                   args.odds_a, args.odds_draw, args.odds_b,
                                   result.stakes[1], result.stakes[2], result.stakes[3],
                                   args.total_stake)]
    /\ op' = "verify_arbitrage_with_rounding"
    /\ pc' = "done"
    /\ UNCHANGED <<args, fp, alerts, discord>>

CalculateArbitrageProfit ==
    /\ pc = "start"
    /\ args.kind = "margin2"
    /\ result' = [profit_margin |-> calculate_arbitrage_profit(args.odds_a, args.odds_b)]
    /\ op' = "calculate_arbitrage_profit"
    /\ pc' = "done"
    /\ UNCHANGED <<args, fp, alerts, discord>>

CalculateThreeWayArbitrage ==
    /\ pc = "start"
    /\ args.kind = "margin3"
    /\ result' = [profit_margin |-> calculate_three_way_arbitrage(args.odds_a, args.odds_draw,
                                                                  args.odds_b)]
    /\ op' = "calculate_three_way_arbitrage"
    /\ pc' = "done"
    /\ UNCHANGED <<args, fp, alerts, discord>>

(***************************************************************************)
(* check_for_arbitrage, for one sport: process_odds, then                  *)
(* find_arbitrage_opportunities on the processed matches.                  *)
(***************************************************************************)
ProcessOdds ==
    /\ pc = "start"
    /\ args.kind \in {"cycle", "alerts"}
    /\ result' = [processed_matches |-> process_odds(args.odds_data, args.sport)]
    /\ op' = "process_odds"
    /\ pc' = "processed"
    /\ UNCHANGED <<args, fp, alerts, discord>>

FindStandardArbitrage ==
    /\ pc = "processed"
    /\ result' = [processed_matches |-> result.processed_matches,
                  opportunities |-> find_arbitrage_opportunities(result.processed_matches)]
    /\ op' = "find_arbitrage_opportunities"
    /\ pc' = "standard"
    /\ UNCHANGED <<args, fp, alerts, discord>>

\* The cross-market search of the cycle; all_opportunities is then complete.
FindCrossMarketOfCycle ==
    /\ pc = "standard"
    /\ LET opportunities == result.opportunities
           cross_market_opportunities == CrossMarketOpportunities(args.odds_data, args.sport)
       IN  result' = [opportunities |-> opportunities,
                      all_opportunities |-> opportunities \o cross_market_opportunities,
                      validator_calls |->
                          [n \in 1..Len(opportunities) |->
                              StandardPathValidatorCalls(opportunities[n])]
                          \o [n \in 1..Len(cross_market_opportunities) |->
                                  CrossMarketPathValidatorCalls]]
    /\ op' = "find_cross_market_arbitrage"
    /\ pc' = "crossed"
    /\ UNCHANGED <<args, fp, alerts, discord>>

IdentifyOutcomeType ==
    /\ pc = "start"
    /\ args.kind = "label"
    /\ result' = [outcome_type |-> identify_outcome_type(args.outcome_name, args.home_team,
                                                        args.away_team)]
    /\ op' = "identify_outcome_type"
    /\ pc' = "done"
    /\ UNCHANGED <<args, fp, alerts, discord>>

(***************************************************************************)
(* The alert loop: should_alert on one of the cycle's opportunities, and   *)
(* the passing of time between calls.                                      *)
(***************************************************************************)
ShouldAlert ==
    /\ pc \in {"crossed", "idle", "returned"}
    /\ args.kind = "alerts"
    /\ \E i \in DOMAIN result.all_opportunities :
          LET opportunity == result.all_opportunities[i]
              r == should_alert(opportunity, recent_alerts, now)
              alert_key == create_alert_key(opportunity)
          IN  /\ result' = [opportunities |-> result.opportunities,
                             all_opportunities |-> result.all_opportunities,
                             validator_calls |-> result.validator_calls,
                             opportunity |-> opportunity, returned |-> r.returned]
              /\ recent_alerts' = r.recent_alerts
              /\ last_alerted' =
                     IF r.returned
                     THEN [k \in DOMAIN last_alerted \cup {alert_key} |->
                              IF k = alert_key
                              THEN [time |-> now,
                                    previous |-> IF alert_key \in DOMAIN last_alerted
                                                 THEN last_alerted[alert_key].time
                                                 ELSE NoneVal,
                                    opportunity |-> opportunity]
                              ELSE last_alerted[k]]
                     ELSE last_alerted
    /\ op' = "should_alert"
    /\ pc' = "returned"
    /\ UNCHANGED <<args, fp, now, discord>>

Tick ==
    /\ pc \in {"crossed", "idle", "returned"}
    /\ args.kind = "alerts"
    /\ now < MaxTicks * TickSeconds
    /\ now' = now + TickSeconds
    /\ pc' = "idle"
    /\ UNCHANGED <<op, args, result, fp, recent_alerts, last_alerted, discord>>

\* A later cycle on the same feed: process_odds and then
\* find_arbitrage_opportunities once more, after the alert loop of the
\* first cycle has filled recent_alerts and time has passed.
ProcessAndFindAgain ==
    /\ pc \in {"crossed", "idle", "returned"}
    /\ args.kind = "alerts"
    /\ result' = [opportunities |-> result.opportunities,
                  again |-> find_arbitrage_opportunities(
                                process_odds(args.odds_data, args.sport))]
    /\ op' = "find_arbitrage_opportunities"
    /\ pc' = "again"
    /\ UNCHANGED <<args, fp, alerts, discord>>

PassesFilters ==
    /\ pc = "start"
    /\ args.kind = "filter"
    /\ result' = passes_filters(args.opportunity, now)
    /\ op' = "passes_filters"
    /\ pc' = "done"
    /\ UNCHANGED <<args, fp, alerts, discord>>

(***************************************************************************)
(* check_for_arbitrage over the sports of config.SPORTS: the loop that     *)
(* fetches and processes one sport per iteration, then the alert loop.     *)
(***************************************************************************)
BeginCheck ==
    /\ pc = "start"
    /\ args.kind = "check"
    /\ result' = [index |-> 1, all_opportunities |-> <<>>, fetched |-> <<>>,
                  processed |-> <<>>]
    /\ op' = "check_for_arbitrage"
    /\ pc' = "fetching"
    /\ UNCHANGED <<args, fp, alerts, discord>>

FetchAndProcessSport ==
    /\ pc = "fetching"
    /\ result.index <= MaxSports
    /\ LET sport == SPORTS[result.index]
           odds_data == args.responses[result.index]
       IN  result' = [index |-> AfterSport(result.index, odds_data),
                      all_opportunities |->
                          result.all_opportunities \o SportOpportunities(odds_data, sport),
                      fetched |-> Append(result.fetched, sport),
                      processed |-> IF FetchSucceeded(odds_data)
                                    THEN Append(result.processed, sport)
                                    ELSE result.processed]
    /\ op' = "fetch_odds"
    /\ pc' = "fetching"
    /\ UNCHANGED <<args, fp, alerts, discord>>

AlertOpportunities ==
    /\ pc = "fetching"
    /\ result.index > MaxSports
    /\ LET r == AlertLoop(result.all_opportunities, recent_alerts, now)
       IN  /\ result' = [index |-> result.index,
                         all_opportunities |-> result.all_opportunities,
                         fetched |-> result.fetched, processed |-> result.processed,
                         filtered |-> r.filtered, duplicates |-> r.duplicates,
                         alerted |-> r.alerted]
           /\ recent_alerts' = r.recent_alerts
    /\ op' = "check_for_arbitrage"
    /\ pc' = "checked"
    /\ UNCHANGED <<args, fp, now, last_alerted, discord>>

(***************************************************************************)
(* The calls of the SubscriptionManager about lifetime premium.            *)
(***************************************************************************)
GrantLifetimePremium ==
    /\ pc \in {"start", "called"}
    /\ args.kind \in {"premium", "discord"}
    /\ \E discord_id \in DiscordUsers :
          /\ users' = users \cup {discord_id}
          /\ premium_entitlements' = grant_lifetime_premium(premium_entitlements, discord_id)
          /\ last_premium_call' =
                 [k \in DOMAIN last_premium_call \cup {discord_id} |->
                     IF k = discord_id THEN "grant" ELSE last_premium_call[k]]
          /\ result' = [discord_id |-> discord_id, returned |-> TRUE]
    /\ op' = "grant_lifetime_premium"
    /\ pc' = "called"
    /\ UNCHANGED <<args, fp, alerts, rate_limit_cache, daily_summary, channel_sends>>

RevokePremium ==
    /\ pc \in {"start", "called"}
    /\ args.kind \in {"premium", "discord"}
    /\ \E discord_id \in DiscordUsers :
          /\ premium_entitlements' = revoke_premium(premium_entitlements, discord_id)
          /\ last_premium_call' =
                 [k \in DOMAIN last_premium_call \cup {discord_id} |->
                     IF k = discord_id THEN "revoke" ELSE last_premium_call[k]]
          /\ result' = [discord_id |-> discord_id, returned |-> TRUE]
    /\ op' = "revoke_premium"
    /\ pc' = "called"
    /\ UNCHANGED <<args, fp, alerts, users, rate_limit_cache, daily_summary, channel_sends>>

IsPremiumUser ==
    /\ pc \in {"start", "called"}
    /\ args.kind = "premium"
    /\ \E discord_id \in DiscordUsers :
          result' = [discord_id |-> discord_id,
                     returned |-> is_premium_user(premium_entitlements, discord_id)]
    /\ op' = "is_premium_user"
    /\ pc' = "called"
    /\ UNCHANGED <<args, fp, alerts, discord>>

GetAllPremiumUsers ==
    /\ pc \in {"start", "called"}
    /\ args.kind = "premium"
    /\ result' = [discord_id |-> 0,
                  returned |-> get_all_premium_users(premium_entitlements)]
    /\ op' = "get_all_premium_users"
    /\ pc' = "called"
    /\ UNCHANGED <<args, fp, alerts, discord>>

\* send_opportunity_to_subscribers: without a guild it returns at once;
\* otherwise it sends to the channels and adds to the daily summary.
SendOpportunityToSubscribers ==
    /\ pc \in {"start", "called"}
    /\ args.kind = "discord"
    /\ daily_summary.total_found < MaxSends
    /\ \E opportunity \in DiscordOpportunities :
          /\ result' = [opportunity |-> opportunity, sends_before |-> Len(channel_sends)]
          /\ IF ~args.guilds
             THEN UNCHANGED <<rate_limit_cache, channel_sends, daily_summary>>
             ELSE LET sent == SendToChannels(
                                  [rate_limit_cache |-> rate_limit_cache,
                                   channel_sends |-> channel_sends],
                                  opportunity, args.premium_channel, args.free_channel,
                                  get_all_premium_users(premium_entitlements))
                  IN  /\ rate_limit_cache' = sent.rate_limit_cache
                      /\ channel_sends' = sent.channel_sends
                      /\ daily_summary' =
                             [total_found |-> daily_summary.total_found + 1,
                              high_confidence |-> daily_summary.high_confidence,
                              total_profit |-> daily_summary.total_profit
                                                   + opportunity.guaranteed_profit,
                              opportunities |-> Append(daily_summary.opportunities,
                                                       opportunity)]
    /\ op' = "send_opportunity_to_subscribers"
    /\ pc' = "called"
    /\ UNCHANGED <<args, fp, alerts, users, premium_entitlements, last_premium_call>>

NextValidators ==
    \/ ValidateTwoWayPartition
    \/ ValidateThreeWayPartition
    \/ ValidateTwoWayArbitrage
    \/ ValidateThreeWayArbitrage

SpecValidators == InitValidators /\ [][NextValidators]_vars

NextStakes == CalculateStakesWithValidation

SpecStakes == InitStakes /\ [][NextStakes]_vars

NextFinder ==
    \/ FindArbitrageOpportunities
    \/ FindCrossMarketArbitrage

SpecFinder == InitFinder /\ [][NextFinder]_vars

NextBalancer ==
    \/ CalculateThreeWayStakesBalanced
    \/ VerifyArbitrageWithRounding

SpecBalancer == InitBalancer /\ [][NextBalancer]_vars

NextMargin ==
    \/ CalculateArbitrageProfit
    \/ CalculateThreeWayArbitrage

SpecMargin == InitMargin /\ [][NextMargin]_vars

NextCycle ==
    \/ ProcessOdds
    \/ FindStandardArbitrage
    \/ FindCrossMarketOfCycle

SpecCycle == InitCycle /\ [][NextCycle]_vars

NextLabels == IdentifyOutcomeType

SpecLabels == InitLabels /\ [][NextLabels]_vars

NextAlerts ==
    \/ ProcessOdds
    \/ FindStandardArbitrage
    \/ FindCrossMarketOfCycle
    \/ ShouldAlert
    \/ Tick

SpecAlerts == InitAlerts /\ [][NextAlerts]_vars

NextFilters == PassesFilters

SpecFilters == InitFilters /\ [][NextFilters]_vars

NextCheck ==
    \/ BeginCheck
    \/ FetchAndProcessSport
    \/ AlertOpportunities

SpecCheck == InitCheck /\ [][NextCheck]_vars

NextPremium ==
    \/ GrantLifetimePremium
    \/ RevokePremium
    \/ IsPremiumUser
    \/ GetAllPremiumUsers

SpecPremium == InitPremium /\ [][NextPremium]_vars

NextDiscord ==
    \/ GrantLifetimePremium
    \/ RevokePremium
    \/ SendOpportunityToSubscribers

SpecDiscord == InitDiscord /\ [][NextDiscord]_vars

NextRepeat ==
    \/ ProcessOdds
    \/ FindStandardArbitrage
    \/ FindCrossMarketOfCycle
    \/ ShouldAlert
    \/ Tick
    \/ ProcessAndFindAgain

SpecRepeat == InitAlerts /\ [][NextRepeat]_vars

(***************************************************************************)
(* The spread matchers called on their own: matches_home_spread and        *)
(* matches_away_spread on a score scenario and a line.                     *)
(***************************************************************************)
MaxScore == 3

SpreadArgs ==
    [kind : {"spread"}, side : {"home", "away"}, home_score : 0..MaxScore,
     away_score : 0..MaxScore, spread : SpreadLines]

InitSpreads ==
    /\ pc = "start"
    /\ op = ""
    /\ args \in SpreadArgs
    /\ result = NoResult
    /\ fp = {}
    /\ NoAlerts
    /\ NoDiscord

MatchesHomeSpread ==
    /\ pc = "start"
    /\ args.kind = "spread"
    /\ args.side = "home"
    /\ result' = [matches |-> matches_home_spread(
                                  GameScenario(args.home_score, args.away_score), args.spread)]
    /\ op' = "matches_home_spread"
    /\ pc' = "done"
    /\ UNCHANGED <<args, fp, alerts, discord>>

MatchesAwaySpread ==
    /\ pc = "start"
    /\ args.kind = "spread"
    /\ args.side = "away"
    /\ result' = [matches |-> matches_away_spread(
                                  GameScenario(args.home_score, args.away_score), args.spread)]
    /\ op' = "matches_away_spread"
    /\ pc' = "done"
    /\ UNCHANGED <<args, fp, alerts, discord>>

NextSpreads ==
    \/ MatchesHomeSpread
    \/ MatchesAwaySpread

SpecSpreads == InitSpreads /\ [][NextSpreads]_vars

\* The validators together with the two finders that call them.
InitValidatorsAndFinders == InitValidators \/ InitFinder

NextValidatorsAndFinders == NextValidators \/ NextFinder

SpecValidatorsAndFinders == InitValidatorsAndFinders /\ [][NextValidatorsAndFinders]_vars

Init ==
    InitValidators \/ InitStakes \/ InitFinder \/ InitBalancer \/ InitMargin \/ InitCycle
    \/ InitLabels \/ InitAlerts \/ InitSpreads \/ InitFilters \/ InitCheck \/ InitPremium
    \/ InitDiscord

Next ==
    NextValidators \/ NextStakes \/ NextFinder \/ NextBalancer \/ NextMargin \/ NextCycle
    \/ NextLabels \/ NextAlerts \/ NextSpreads \/ NextFilters \/ NextCheck \/ NextRepeat
    \/ NextPremium \/ NextDiscord

Spec == Init /\ [][Next]_vars

(***************************************************************************)
(* Properties.  The outcomes of a validator call, the outcomes that win a  *)
(* scenario, and the two defects of a candidate: an overlap (a scenario    *)
(* with more than one winner) and an uncovered scenario (one with none).   *)
(***************************************************************************)
IsValidatorCall == args.kind \in {"partition2", "partition3", "arbitrage2", "arbitrage3"}

IsTwoWayCall == args.kind \in {"partition2", "arbitrage2"}

OutcomesOf(a) ==
    IF a.kind \in {"partition3", "arbitrage3"}
    THEN <<a.outcome_a, a.outcome_draw, a.outcome_b>>
    ELSE <<a.outcome_a, a.outcome_b>>

Wins(outcome, scenario) ==
    ~EvalRaises(outcome, scenario) /\ evaluate_outcome_in_scenario(outcome, scenario)

Winners(outcomes, scenario) == {k \in DOMAIN outcomes : Wins(outcomes[k], scenario)}

HasOverlap(outcomes, sport) ==
    \E i \in DOMAIN GetScenariosForSport(sport) :
        Cardinality(Winners(outcomes, GetScenariosForSport(sport)[i])) > 1

UncoveredScenarios(outcomes, sport) ==
    {i \in DOMAIN GetScenariosForSport(sport) :
        Winners(outcomes, GetScenariosForSport(sport)[i]) = {}}

HasUncoveredNonDraw(outcomes, sport) ==
    \E i \in UncoveredScenarios(outcomes, sport) :
        ~IsDrawScenario(GetScenariosForSport(sport)[i])

DrawPossible(sport) ==
    \E i \in DOMAIN GetScenariosForSport(sport) :
        IsDrawScenario(GetScenariosForSport(sport)[i])

ScoreBased(sport) == ~IsStr(GetScenariosForSport(sport)[1])

HOME_WIN == EnumOutcome("HOME_WIN")

AWAY_WIN == EnumOutcome("AWAY_WIN")

HomeMinusOneAndAHalf == SpreadOutcome("HOME_SPREAD_COVER", 0 - 3)

\* C1: whenever some scenario of the sport makes more than one of the given
\* outcomes win, none of the four validators returns valid, whatever the stakes
\* and odds; and the pair HOME_WIN + HOME_SPREAD_COVER(-1.5), in either order,
\* is never valid.
C1_OverlapRejected ==
    (pc = "done" /\ IsValidatorCall) =>
        /\ HasOverlap(OutcomesOf(args), args.sport) => ~result.is_valid
        /\ (IsTwoWayCall /\ {args.outcome_a, args.outcome_b} = {HOME_WIN, HomeMinusOneAndAHalf})
              => ~result.is_valid

C1_Witness ==
    /\ pc = "done"
    /\ op = "validate_two_way_partition"
    /\ args.outcome_a = HOME_WIN
    /\ args.outcome_b = HomeMinusOneAndAHalf
    /\ HasOverlap(OutcomesOf(args), args.sport)
    /\ ~result.raised
    /\ result.reason = "overlap"

\* The outcomes that the finders hand to the validators for an opportunity.
OpportunityOutcomes(opp) ==
    IF opp.num_outcomes = 3
    THEN <<HOME_WIN, EnumOutcome("DRAW"), AWAY_WIN>>
    ELSE IF opp.market = "h2h_moneyline" THEN <<HOME_WIN, AWAY_WIN>>
    ELSE <<FinderOutcomeA(opp), FinderOutcomeB(opp)>>

IsFinderCall == args.kind \in {"finder", "cross"}

\* C2: whenever some non-draw scenario of the sport has no winning outcome,
\* none of the four validators returns valid; and no opportunity returned by
\* find_arbitrage_opportunities or find_cross_market_arbitrage leaves a
\* non-draw scenario uncovered.
C2_UncoveredRejected ==
    /\ (pc = "done" /\ IsValidatorCall) =>
          (HasUncoveredNonDraw(OutcomesOf(args), args.sport) => ~result.is_valid)
    /\ (pc = "done" /\ IsFinderCall) =>
          \A k \in DOMAIN result.opportunities :
              ~HasUncoveredNonDraw(OpportunityOutcomes(result.opportunities[k]),
                                   result.opportunities[k].sport)

C2_Witness ==
    /\ pc = "done"
    /\ op = "validate_three_way_arbitrage"
    /\ HasUncoveredNonDraw(OutcomesOf(args), args.sport)
    /\ ~HasOverlap(OutcomesOf(args), args.sport)
    /\ result.reason = "loss_scenarios"

\* C3: on every score-based sport family (hockey, soccer, basketball, and the
\* default of an unknown sport), validate_two_way_partition returns invalid for
\* HOME_SPREAD_COVER(-1.5) against AWAY_WIN.
C3_SpreadAgainstMoneylineInvalid ==
    (/\ pc = "done"
     /\ op = "validate_two_way_partition"
     /\ ScoreBased(args.sport)
     /\ args.outcome_a = HomeMinusOneAndAHalf
     /\ args.outcome_b = AWAY_WIN)
        => (~result.raised /\ ~result.is_valid)

\* C4: for the moneyline pair {HOME_WIN, AWAY_WIN} on a sport whose scenarios
\* include a draw, validate_two_way_partition returns valid, and returns the
\* same verdict when the two outcomes are passed in the other order.
C4_MoneylineOrderIndependent ==
    (/\ pc = "done"
     /\ op = "validate_two_way_partition"
     /\ DrawPossible(args.sport)
     /\ {args.outcome_a, args.outcome_b} = {HOME_WIN, AWAY_WIN})
        => /\ result.is_valid
           /\ result = validate_two_way_partition(args.outcome_b, args.outcome_a, args.sport)

\* Stakes and odds of an arbitrage-validator call, leg by leg, and the profit
\* of scenario i in 1/10000 dollar: the winning leg's stake times its odds
\* minus all the stakes, or minus all the stakes when no leg wins.
SetMin(S) == CHOOSE x \in S : \A y \in S : x <= y

SetMax(S) == CHOOSE x \in S : \A y \in S : x >= y

RECURSIVE SumSeq(_)
SumSeq(q) == IF q = <<>> THEN 0 ELSE Head(q) + SumSeq(Tail(q))

ScenarioProfit(a, i) ==
    LET winners == Winners(OutcomesOf(a), GetScenariosForSport(a.sport)[i])
    IN  IF winners = {} THEN 0 - 100 * SumSeq(a.stakes)
        ELSE LET k == SetMin(winners)
             IN  a.stakes[k] * a.odds[k] - 100 * SumSeq(a.stakes)

WinningScenarios(a) ==
    DOMAIN GetScenariosForSport(a.sport) \ UncoveredScenarios(OutcomesOf(a), a.sport)

WinningProfits(a) == {ScenarioProfit(a, i) : i \in WinningScenarios(a)}

DrawScenarios(sport) ==
    {i \in DOMAIN GetScenariosForSport(sport) : IsDrawScenario(GetScenariosForSport(sport)[i])}

\* C5: for HOME_WIN / AWAY_WIN on a sport whose scenarios include draws,
\* validate_two_way_arbitrage records every draw scenario, in
\* all_scenario_profits and in draw_scenarios, with a profit of minus the
\* total of both stakes, and profit_range is the minimum and maximum profit
\* over the winning scenarios only.
C5_DrawIsFullLossOutsideRange ==
    (/\ pc = "done"
     /\ op = "validate_two_way_arbitrage"
     /\ DrawPossible(args.sport)
     /\ {args.outcome_a, args.outcome_b} = {HOME_WIN, AWAY_WIN})
        => LET res == result.results
               scenarios == GetScenariosForSport(args.sport)
           IN  /\ \A i \in DrawScenarios(args.sport) :
                     /\ res.all_scenario_profits[i].scenario = scenarios[i]
                     /\ res.all_scenario_profits[i].profit = 0 - SumSeq(args.stakes)
                     /\ \E j \in DOMAIN res.draw_scenarios :
                            res.draw_scenarios[j] = scenarios[i]
               /\ Len(res.draw_scenarios) = Cardinality(DrawScenarios(args.sport))
               /\ res.profit_range = <<SetMin(WinningProfits(args)),
                                       SetMax(WinningProfits(args))>>

C5_Witness ==
    /\ pc = "done"
    /\ op = "validate_two_way_arbitrage"
    /\ args.sport = "soccer_epl"
    /\ args.outcome_a = HOME_WIN
    /\ args.outcome_b = AWAY_WIN
    /\ result.is_valid
    /\ Len(result.results.draw_scenarios) > 0
    /\ result.results.profit_range[1] > 0

\* The two outcomes are one side's moneyline win against the other side's,
\* under any of the names the validators know for them.
IsMoneylinePair(outcome_a, outcome_b) ==
    \E home \in {"HOME_WIN", "HOME", "A_WINS"}, away \in {"AWAY_WIN", "AWAY", "B_WINS"} :
        {outcome_a.outcome_type, outcome_b.outcome_type} = {home, away}

\* C6: validate_two_way_arbitrage returns valid while some scenario has no
\* winning leg only if every such scenario is a draw and the two outcomes are
\* the two-way moneyline pair.
C6_DrawExceptionOnlyForMoneyline ==
    (/\ pc = "done"
     /\ op = "validate_two_way_arbitrage"
     /\ result.is_valid
     /\ UncoveredScenarios(OutcomesOf(args), args.sport) # {})
        => /\ ~HasUncoveredNonDraw(OutcomesOf(args), args.sport)
           /\ IsMoneylinePair(args.outcome_a, args.outcome_b)

\* C7: whenever validate_two_way_arbitrage or validate_three_way_arbitrage
\* returns valid, the profit is non-negative in every scenario in which a leg
\* wins.
C7_ValidMeansNoLosingWin ==
    (/\ pc = "done"
     /\ op \in {"validate_two_way_arbitrage", "validate_three_way_arbitrage"}
     /\ result.is_valid)
        => \A p \in WinningProfits(args) : p >= 0

\* C8: whenever validate_two_way_arbitrage returns valid, the maximum and the
\* minimum profit over the winning scenarios differ by at most $0.10; whenever
\* validate_three_way_arbitrage returns valid, the maximum and the minimum
\* profit over all scenarios differ by at most $0.05.
C8_ProfitSpreadWithinTolerance ==
    /\ (pc = "done" /\ op = "validate_two_way_arbitrage" /\ result.is_valid)
          => SetMax(WinningProfits(args)) - SetMin(WinningProfits(args)) <= 1000
    /\ (pc = "done" /\ op = "validate_three_way_arbitrage" /\ result.is_valid)
          => LET profits == {ScenarioProfit(args, i) :
                                i \in DOMAIN GetScenariosForSport(args.sport)}
             IN  SetMax(profits) - SetMin(profits) <= 500

C8_Witness ==
    /\ pc = "done"
    /\ op = "validate_two_way_arbitrage"
    /\ result.is_valid
    /\ SetMax(WinningProfits(args)) - SetMin(WinningProfits(args)) > 0

StakeSum(opp) == opp.stake_a + opp.stake_draw + opp.stake_b

\* C9: the leg stakes of every opportunity returned by
\* find_arbitrage_opportunities or find_cross_market_arbitrage, two-way or
\* three-way, sum to DEFAULT_STAKE within $0.01.
C9_StakesSumToDefaultStake ==
    (pc = "done" /\ IsFinderCall) =>
        \A k \in DOMAIN result.opportunities :
            Abs(StakeSum(result.opportunities[k]) - DEFAULT_STAKE) <= 1

\* An opportunity whose stakes calculate_stakes_with_validation had left more
\* than a cent short of DEFAULT_STAKE.
C9_Witness ==
    /\ pc = "done"
    /\ IsFinderCall
    /\ \E k \in DOMAIN result.opportunities :
          LET opp == result.opportunities[k]
              stakes_result == calculate_stakes_with_validation(opp.odds_a, opp.odds_b,
                                                                DEFAULT_STAKE)
          IN  /\ opp.num_outcomes = 2
              /\ Abs(stakes_result[1] + stakes_result[2] - DEFAULT_STAKE) > 1

\* C10: the two stakes returned by calculate_stakes_with_validation sum exactly
\* to total_stake.
C10_StakesSumExactly ==
    (pc = "done" /\ op = "calculate_stakes_with_validation" /\ result.stakes # <<>>)
        => result.stakes[1] + result.stakes[2] = args.total_stake

\* C11: calculate_stakes_with_validation returns a stake pair only if the
\* returns stake_a * odds_a and stake_b * odds_b of the returned stakes are
\* within $0.01 of each other (otherwise it returns None).
C11_ReturnedStakesHaveEqualReturns ==
    (pc = "done" /\ op = "calculate_stakes_with_validation" /\ result.stakes # <<>>)
        => Abs(result.stakes[1] * args.odds_a - result.stakes[2] * args.odds_b)
               <= ReturnTolerance

IsBalancerResult ==
    pc \in {"balanced", "done"} /\ args.kind = "stakes3"

\* C12: for any three odds > 1 and any total_stake, the three whole-cent
\* stakes returned by calculate_three_way_stakes_balanced sum to total_stake
\* exactly, at whichever iteration the refinement loop stops.
C12_BalancedStakesSumExactly ==
    IsBalancerResult =>
        /\ result.stakes \in Int \X Int \X Int
        /\ result.stakes[1] + result.stakes[2] + result.stakes[3] = args.total_stake

\* The loop ran to its last iteration without breaking, and the last leg is
\* not the cent-rounding of its ideal share: it absorbed a remainder.
C12_Witness ==
    /\ IsBalancerResult
    /\ args.max_iterations > 1
    /\ calculate_three_way_stakes_balanced(args.odds_a, args.odds_draw, args.odds_b,
                                           args.total_stake, args.max_iterations - 1)
           # result.stakes
    /\ LET o == ReducedOdds(args.odds_a, args.odds_draw, args.odds_b)
           ideal == IdealThreeWayStakes(o, args.total_stake)
       IN  result.stakes[3] # RoundDiv(ideal.b, ideal.den)

ImpliedProbabilityBelowOne(odds_a, odds_draw, odds_b) ==
    100 * (odds_draw * odds_b + odds_a * odds_b + odds_a * odds_draw)
        < odds_a * odds_draw * odds_b

\* C13: for three odds whose implied probabilities sum to less than 1, the
\* payouts stake * odds of the stakes returned by
\* calculate_three_way_stakes_balanced differ by at most $0.05 between any two
\* legs, and verify_arbitrage_with_rounding accepts the stakes.
C13_BalancedPayoutsWithinFiveCents ==
    (/\ pc = "done"
     /\ op = "verify_arbitrage_with_rounding"
     /\ ImpliedProbabilityBelowOne(args.odds_a, args.odds_draw, args.odds_b))
        => /\ result.verified.max_return - result.verified.min_return
                  <= VerifyReturnTolerance
           /\ result.verified.is_valid

\* The implied probabilities 1/odds of the legs sum to 1 or more.
NoArbitrage2(odds_a, odds_b) == 100 * (odds_a + odds_b) >= odds_a * odds_b

NoArbitrage3(odds_a, odds_draw, odds_b) == ~ImpliedProbabilityBelowOne(odds_a, odds_draw, odds_b)

NoArbitrage(c) ==
    IF c.num_outcomes = 3 THEN NoArbitrage3(c.odds_a, c.odds_draw, c.odds_b)
    ELSE NoArbitrage2(c.odds_a, c.odds_b)

\* No opportunity returned by find_arbitrage_opportunities or
\* find_cross_market_arbitrage has legs whose implied probabilities sum to 1
\* or more.
NoEmissionWithoutArbitrage ==
    (pc = "done" /\ IsFinderCall) =>
        \A k \in DOMAIN result.opportunities : ~NoArbitrage(result.opportunities[k])

\* C14: for a two-way or three-way candidate whose implied probabilities sum
\* to 1 or more the profit margin is computed as exactly 0, and neither
\* find_arbitrage_opportunities nor find_cross_market_arbitrage emits an
\* opportunity for it.
C14_NoArbitrageMeansZeroMarginAndNoEmission ==
    /\ (pc = "done" /\ op = "calculate_arbitrage_profit"
            /\ NoArbitrage2(args.odds_a, args.odds_b))
           => result.profit_margin = ZeroMargin
    /\ (pc = "done" /\ op = "calculate_three_way_arbitrage"
            /\ NoArbitrage3(args.odds_a, args.odds_draw, args.odds_b))
           => result.profit_margin = ZeroMargin
    /\ NoEmissionWithoutArbitrage

\* The label of a leg can be classified in its market: identify_outcome_type
\* does not yield 'OTHER' (h2h, spreads); the label is over or under (totals).
Classifiable(raw_name, market_key) ==
    IF market_key = "totals"
    THEN Contains(Lower(raw_name), <<"o", "v", "e", "r">>)
             \/ Contains(Lower(raw_name), <<"u", "n", "d", "e", "r">>)
    ELSE identify_outcome_type(raw_name, AJAX, LYON) # "OTHER"

LegsClassifiable(c) ==
    /\ Classifiable(c.bookmaker_a_raw, c.market)
    /\ Classifiable(c.bookmaker_b_raw, c.market)

UnclassifiedKeys == {"OTHER"} \cup {"OTHER_" \o FormatPoint(p) : p \in {0 - 3, 3, 5}}

\* C15: an outcome whose label cannot be classified (identify_outcome_type
\* yields 'OTHER', or a totals label that is neither over nor under) never
\* becomes a leg of a candidate built by process_odds, nor of an opportunity
\* returned by find_arbitrage_opportunities, for any sport.
C15_UnclassifiedOutcomeNeverALeg ==
    /\ pc = "processed" =>
           \A k \in DOMAIN result.processed_matches :
               LegsClassifiable(result.processed_matches[k])
    /\ pc = "standard" =>
           \A k \in DOMAIN result.opportunities :
               /\ result.opportunities[k].player_a \notin UnclassifiedKeys
               /\ result.opportunities[k].player_b \notin UnclassifiedKeys

\* C16: identify_outcome_type classifies a label that is exactly the home
\* team's name as HOME and one that is exactly the away team's name as AWAY,
\* also for names with the parts that normalize_team_name rewrites.
C16_TeamNameLabelClassified ==
    (pc = "done" /\ op = "identify_outcome_type") =>
        /\ args.outcome_name = args.home_team => result.outcome_type = "HOME"
        /\ args.outcome_name = args.away_team => result.outcome_type = "AWAY"

\* A step that is a call of should_alert; the call's key.
IsShouldAlertStep == pc' = "returned" /\ now' = now

CalledKey == create_alert_key(result'.opportunity)

\* C17: should_alert returns False for an opportunity whose key was last
\* alerted less than DUPLICATE_ALERT_WINDOW_SECONDS ago and True otherwise,
\* recording the current time; so two True results for one key are at least
\* the window apart.
C17_SuppressedExactlyWithinWindow ==
    [][IsShouldAlertStep =>
          /\ result'.returned = FALSE <=>
                 (/\ CalledKey \in DOMAIN last_alerted
                  /\ now - last_alerted[CalledKey].time < DUPLICATE_ALERT_WINDOW_SECONDS)
          /\ result'.returned =>
                 /\ recent_alerts'[CalledKey] = now
                 /\ CalledKey \in DOMAIN last_alerted =>
                        now - last_alerted[CalledKey].time >= DUPLICATE_ALERT_WINDOW_SECONDS]_vars

\* An alert was given for a key whose earlier alert is exactly the window old.
C17_Witness ==
    /\ pc = "returned"
    /\ result.returned
    /\ LET k == create_alert_key(result.opportunity)
       IN  /\ last_alerted[k].time = now
           /\ last_alerted[k].previous = now - DUPLICATE_ALERT_WINDOW_SECONDS

\* C18: after every call of should_alert, whatever it returned, recent_alerts
\* holds no entry older than DUPLICATE_ALERT_WINDOW_SECONDS.
C18_NoEntryOlderThanWindowAfterCall ==
    pc = "returned" =>
        \A k \in DOMAIN recent_alerts :
            now - recent_alerts[k] <= DUPLICATE_ALERT_WINDOW_SECONDS

\* The bookmakers of the legs of an opportunity.
LegBookmakers(opportunity) ==
    <<opportunity.bookmaker_a, opportunity.bookmaker_draw, opportunity.bookmaker_b>>

\* C19: two opportunities that differ in the bookmaker of any leg (leg a,
\* leg b or the draw leg of a three-way opportunity) have different
\* create_alert_key values, so should_alert never suppresses one of them as
\* a duplicate of the other.
C19_DifferentBookmakersDifferentKeys ==
    /\ pc = "crossed" =>
           \A i, j \in DOMAIN result.all_opportunities :
               LegBookmakers(result.all_opportunities[i])
                       # LegBookmakers(result.all_opportunities[j])
                   => create_alert_key(result.all_opportunities[i])
                          # create_alert_key(result.all_opportunities[j])
    /\ (pc = "returned" /\ ~result.returned) =>
           LegBookmakers(last_alerted[create_alert_key(result.opportunity)].opportunity)
               = LegBookmakers(result.opportunity)

\* The calls hold one of the Partition Validator followed by one of the
\* Arbitrage Validator.
PartitionBeforeArbitrage(calls) ==
    \E i, j \in DOMAIN calls :
        /\ i < j
        /\ calls[i] \in {"OutcomePartition.validate_two_way_partition",
                         "OutcomePartition.validate_three_way_partition"}
        /\ calls[j] \in {"ArbitrageValidator.validate_two_way_arbitrage",
                         "ArbitrageValidator.validate_three_way_arbitrage"}

\* C20: in every polling cycle each opportunity that reaches passes_filters
\* and should_alert was checked by the Partition Validator before the
\* Arbitrage Validator, on the standard path as on the cross-market path.
C20_PartitionCheckedBeforeArbitrage ==
    pc = "crossed" =>
        \A n \in DOMAIN result.all_opportunities :
            PartitionBeforeArbitrage(result.validator_calls[n])

\* C25: AWAY_SPREAD_COVER with line L wins exactly in the score scenarios
\* with away_score + L > home_score, strictly (a push is not a cover), and
\* HOME_SPREAD_COVER with line L exactly in those with home_score + L >
\* away_score.  Lines are in half points, so scores count double.
C25_SpreadCoverIsStrictInequality ==
    /\ (pc = "done" /\ op = "matches_away_spread") =>
           (result.matches <=> 2 * args.away_score + args.spread > 2 * args.home_score)
    /\ (pc = "done" /\ op = "matches_home_spread") =>
           (result.matches <=> 2 * args.home_score + args.spread > 2 * args.away_score)

\* C29: for any two outcomes, sport, stakes and odds, if
\* validate_two_way_arbitrage returns valid then validate_two_way_partition
\* returns valid for the same outcomes and sport.
C29_ArbitrageValidImpliesPartitionValid ==
    (pc = "done" /\ op = "validate_two_way_arbitrage" /\ result.returned /\ result.is_valid) =>
        LET partition == validate_two_way_partition(args.outcome_a, args.outcome_b, args.sport)
        IN  ~partition.raised /\ partition.is_valid

\* C30: whenever validate_two_way_arbitrage returns valid, each of the two
\* legs wins in at least one of the sport's simulated scenarios.
C30_EachLegWinsSomeScenario ==
    (pc = "done" /\ op = "validate_two_way_arbitrage" /\ result.returned /\ result.is_valid) =>
        LET scenarios == GetScenariosForSport(args.sport)
        IN  /\ \E i \in DOMAIN scenarios : Wins(args.outcome_a, scenarios[i])
            /\ \E i \in DOMAIN scenarios : Wins(args.outcome_b, scenarios[i])

\* C24: for a sport in THREE_OUTCOME_SPORTS, the cycle's all_opportunities
\* holds no two-outcome moneyline opportunity, whether it came from
\* find_arbitrage_opportunities (market h2h) or from
\* find_cross_market_arbitrage (market h2h_moneyline).
C24_NoTwoWayMoneylineForThreeWaySport ==
    (pc = "crossed" /\ is_three_way_sport(args.sport)) =>
        \A n \in DOMAIN result.all_opportunities :
            ~ /\ result.all_opportunities[n].num_outcomes = 2
              /\ result.all_opportunities[n].market \in {"h2h", "h2h_moneyline"}

\* C28: two opportunities on different events have different
\* create_alert_key values, and should_alert never suppresses an
\* opportunity as a duplicate of an alerted opportunity on another event.
C28_DifferentEventsDifferentKeys ==
    /\ pc = "crossed" =>
           \A i, j \in DOMAIN result.all_opportunities :
               result.all_opportunities[i].event_name # result.all_opportunities[j].event_name
                   => create_alert_key(result.all_opportunities[i])
                          # create_alert_key(result.all_opportunities[j])
    /\ (pc = "returned" /\ ~result.returned) =>
           last_alerted[create_alert_key(result.opportunity)].opportunity.event_name
               = result.opportunity.event_name

LowTrustLeg(opportunity) ==
    \E i \in DOMAIN FilterBookmakers(opportunity) :
        TrustScore(FilterBookmakers(opportunity)[i]) < MINIMUM_BOOKMAKER_TRUST

RejectedForTrust(verdict) ==
    ~verdict.passes /\ verdict.reason \in {"bookmaker_trust", "real_world_trust"}

\* C27: passes_filters rejects a validated opportunity on bookmaker trust
\* exactly when the trust score of some leg's bookmaker (5 for an unlisted
\* one) is below MINIMUM_BOOKMAKER_TRUST; an opportunity whose bookmakers
\* all reach the minimum is never rejected for trust.
C27_TrustRejectionExactlyBelowMinimum ==
    (pc = "done" /\ op = "passes_filters") =>
        /\ (args.opportunity.is_validated /\ LowTrustLeg(args.opportunity))
               => RejectedForTrust(result)
        /\ RejectedForTrust(result) => LowTrustLeg(args.opportunity)

SeqRange(seq) == {seq[n] : n \in DOMAIN seq}

LastCallWasGrant(discord_id) ==
    discord_id \in DOMAIN last_premium_call /\ last_premium_call[discord_id] = "grant"

C26_FreePreviewAlwaysSent ==
    (pc = "called" /\ op = "send_opportunity_to_subscribers" /\ args.free_channel) =>
        \E n \in DOMAIN channel_sends :
            /\ n > result.sends_before
            /\ channel_sends[n].channel = "free"
            /\ channel_sends[n].opportunity = result.opportunity
====
